---- MODULE Spec2Model ----
(***************************************************************************)
(* State-machine model of the survey application: the public survey-taking *)
(* page (src/app/survey/[slug]/page.tsx), the admin create and edit pages  *)
(* (src/app/admin/dashboard/...), and the hosted store they talk to.       *)
(*                                                                         *)
(* A JavaScript string is modelled as a sequence of symbols.  A symbol is  *)
(* either one of the characters the codecs treat specially (the double     *)
(* quote, the backslash, the comma, the brackets) or an opaque run of      *)
(* ordinary characters such as "Agree".  The empty string is << >>.        *)
(***************************************************************************)
EXTENDS Integers, Sequences, FiniteSets, TLC

(* ------------------------------ bounds --------------------------------- *)

\* Largest number of questions of the survey the taker loads.
MaxQuestions == 2

\* Largest number of times the taker presses Submit in one session.
MaxSubmits == 2

\* Largest number of changes an admin makes to the edit form in one session.
MaxEdits == 1

\* Largest number of changes the admin makes to the create form.
MaxCreateEdits == 3

\* Largest number of responses the stored survey of the results page has.
MaxResponses == 2

(* --------------------------- JavaScript values ------------------------- *)

Undefined == [type |-> "undefined"]

Null == [type |-> "null"]

StringValue(s) == [type |-> "string", str |-> s]

ArrayValue(a) == [type |-> "array", arr |-> a]

\* typeof v
typeof(v) ==
    CASE v.type = "string" -> "string"
      [] v.type = "undefined" -> "undefined"
      [] OTHER -> "object"

\* The truthiness of a value in a condition such as `if (answer.answer_text)`.
Truthy(v) ==
    CASE v.type = "string" -> v.str # << >>
      [] v.type = "array" -> TRUE
      [] OTHER -> FALSE

QUOTE == "\""

BACKSLASH == "\\"

RECURSIVE JSONescape(_)
\* The body of a JSON string literal: quote and backslash get a backslash.
JSONescape(s) ==
    IF s = << >> THEN << >>
    ELSE IF Head(s) \in {QUOTE, BACKSLASH}
         THEN <<BACKSLASH, Head(s)>> \o JSONescape(Tail(s))
         ELSE <<Head(s)>> \o JSONescape(Tail(s))

JSONstringifyString(s) == <<QUOTE>> \o JSONescape(s) \o <<QUOTE>>

RECURSIVE JSONjoin(_)
JSONjoin(a) ==
    IF a = << >> THEN << >>
    ELSE IF Len(a) = 1 THEN JSONstringifyString(a[1])
    ELSE JSONstringifyString(a[1]) \o <<",">> \o JSONjoin(Tail(a))

\* JSON.stringify(v) for the values the pages hand to it.
JSONstringify(v) ==
    CASE v.type = "string" -> JSONstringifyString(v.str)
      [] v.type = "array" -> <<"[">> \o JSONjoin(v.arr) \o <<"]">>
      [] OTHER -> <<"null">>

RECURSIVE ParseStringBody(_, _)
\* Reads a string literal body from the text t (after the opening quote);
\* acc is what was read so far.  Result: [ok, str, rest].
ParseStringBody(t, acc) ==
    IF t = << >> THEN [ok |-> FALSE, str |-> acc, rest |-> << >>]
    ELSE IF Head(t) = QUOTE THEN [ok |-> TRUE, str |-> acc, rest |-> Tail(t)]
    ELSE IF Head(t) = BACKSLASH
         THEN IF Len(t) >= 2 /\ t[2] \in {QUOTE, BACKSLASH}
              THEN ParseStringBody(Tail(Tail(t)), Append(acc, t[2]))
              ELSE [ok |-> FALSE, str |-> acc, rest |-> << >>]
    ELSE ParseStringBody(Tail(t), Append(acc, Head(t)))

RECURSIVE ParseElements(_, _)
\* Reads the elements of an array literal from t (after "[" or after ",").
ParseElements(t, acc) ==
    IF t = << >> \/ Head(t) # QUOTE
    THEN [ok |-> FALSE, arr |-> acc, rest |-> << >>]
    ELSE LET r == ParseStringBody(Tail(t), << >>) IN
         IF ~r.ok \/ r.rest = << >> THEN [ok |-> FALSE, arr |-> acc, rest |-> << >>]
         ELSE IF Head(r.rest) = "]"
              THEN [ok |-> TRUE, arr |-> Append(acc, r.str), rest |-> Tail(r.rest)]
         ELSE IF Head(r.rest) = ","
              THEN ParseElements(Tail(r.rest), Append(acc, r.str))
         ELSE [ok |-> FALSE, arr |-> acc, rest |-> << >>]

\* JSON.parse(t): [ok |-> FALSE] stands for the SyntaxError it throws.
JSONparse(t) ==
    IF t = <<"null">> THEN [ok |-> TRUE, value |-> Null]
    ELSE IF t = << >> THEN [ok |-> FALSE, value |-> Undefined]
    ELSE IF Head(t) = QUOTE
         THEN LET r == ParseStringBody(Tail(t), << >>) IN
              IF r.ok /\ r.rest = << >>
              THEN [ok |-> TRUE, value |-> StringValue(r.str)]
              ELSE [ok |-> FALSE, value |-> Undefined]
    ELSE IF Head(t) = "["
         THEN IF Tail(t) = <<"]">> THEN [ok |-> TRUE, value |-> ArrayValue(<< >>)]
              ELSE LET r == ParseElements(Tail(t), << >>) IN
                   IF r.ok /\ r.rest = << >>
                   THEN [ok |-> TRUE, value |-> ArrayValue(r.arr)]
                   ELSE [ok |-> FALSE, value |-> Undefined]
    ELSE [ok |-> FALSE, value |-> Undefined]

(* ------------------------------ the store ------------------------------ *)

Statuses == {"draft", "active", "closed"}

QuestionTypes ==
    {"multiple_choice", "short_answer", "long_answer", "likert_scale", "file_upload"}

VARIABLES
    surveys,      \* table surveys: a set of rows [id, title, description, slug, status]
    questions,    \* table questions: a set of rows
    responses,    \* table responses: a set of rows [id, survey_id]
    answerRows,   \* table answers: a set of rows
    nextQuestionId  \* the id the store gives the next question row

store == <<surveys, questions, responses, answerRows, nextQuestionId>>

(* --------------------------- the taker's page -------------------------- *)

VARIABLES
    slug,                  \* params.slug
    survey,                \* useState survey: Null or [id, title, slug, status, questions]
    currentQuestionIndex,  \* useState currentQuestionIndex (0-based)
    answers,               \* useState answers: question id -> JavaScript value
    isLoading,             \* useState isLoading
    isSubmitting,          \* useState isSubmitting
    error,                 \* useState error: Null or a message
    route,                 \* "survey", "navigating" (router.push called), "thank-you"
    pcFetch,               \* where fetchSurvey is: "survey", "questions", "done"
    pcSubmit,              \* where submitSurvey is: "idle", "response", "answers"
    subAnswers,            \* the answers submitSurvey's closure holds
    subResponse,           \* the response row submitSurvey got back
    surveyData,            \* the survey row fetchSurvey got back
    nSubmits               \* submitSurvey calls that reached the store so far

taker == <<slug, survey, currentQuestionIndex, answers, isLoading, isSubmitting,
           error, route, pcFetch, pcSubmit, subAnswers, subResponse, surveyData,
           nSubmits>>

(* ---------------------------- the edit pages --------------------------- *)

\* The admins with the edit page of the survey open.
Admins == {"a1", "a2"}

\* params.surveyId of the edit pages
surveyId == 1

VARIABLES
    editPc,      \* per admin: "off", "loading", "form", "update", "delete", "insert",
                 \* "done" (router.push('/admin/dashboard')), "failed" (load error)
    form,        \* per admin: the values of the form
    editData,    \* per admin: the data onSubmit was called with
    editError,   \* per admin: useState error
    editsLeft    \* per admin: the changes to the form the admin may still make

admin == <<editPc, form, editData, editError, editsLeft>>

(* ------------------ the session, the results and create pages --------- *)

VARIABLES
    session,       \* supabase.auth: whether the browser holds an admin session
    resPc,         \* where fetchSurveyData is: "off", "survey", "questions",
                   \* "responses", "done"
    authPc,        \* where the results page's checkAuth is: "off", "check", "done"
    resRoute,      \* "results", or "login" once router.push('/admin/login') ran
    resSurvey,     \* results page, useState survey
    resResponses,  \* results page, useState responses
    analytics,     \* results page, useState analytics
    resLoading,    \* results page, useState isLoading
    resLocals,     \* fetchSurveyData's surveyData and questionsData
    csvContent     \* the content of the file exportToCSV last wrote, or Null

results == <<resPc, authPc, resRoute, resSurvey, resResponses, analytics, resLoading,
             resLocals, csvContent>>

VARIABLES
    createPc,      \* create page: "off", "form", "user", "survey", "questions", "done"
    createForm,    \* create page: the values of the form
    createData,    \* create page: the data onSubmit was called with
    createError,   \* create page: useState error
    createUser,    \* create page: the user getUser answered with
    createSurvey,  \* create page: the survey row the insert answered with
    createEdits    \* the changes to the create form the admin may still make

create == <<createPc, createForm, createData, createError, createUser, createSurvey,
            createEdits>>

adminPages == <<session, results, create>>

vars == <<store, taker, admin, adminPages>>

\* The messages setError is given.
Message(text) == [type |-> "string", text |-> text]

NotFoundMessage == Message("Survey not found or not active")

LoadFailedMessage == Message("Failed to load survey")

RequiredMessage == Message("Please answer this required question before continuing")

\* `Please answer all required questions: ${texts.join(', ')}`
MissingRequiredMessage(texts) ==
    [type |-> "string", text |-> "Please answer all required questions: ", list |-> texts]

SubmitFailedMessage == Message("Failed to submit survey")

\* answers[k]: undefined for a key the object does not have
Get(obj, k) == IF k \in DOMAIN obj THEN obj[k] ELSE Undefined

\* array[i] for a 0-based index i: undefined outside the array
At(array, i) == IF i + 1 \in DOMAIN array THEN array[i + 1] ELSE Undefined

\* The sequences that hold each row of the set rows once, in order_index order
\* (rows with equal order_index come in either order).
OrderByIndex(rows) ==
    {s \in [1..Cardinality(rows) -> rows] :
        /\ \A i, j \in DOMAIN s : i # j => s[i] # s[j]
        /\ \A i, j \in DOMAIN s : i < j => s[i].order_index <= s[j].order_index}

\* What a failed request reports as err.message: some text, or nothing.
BackendMessages == {Message("backend error"), Message("")}

\* err.message || fallback
OrElse(message, fallback) == IF message.text # "" THEN message ELSE fallback

\* The row filter of fetchSurvey without the test of the status.
ActiveSurveysWithSlug_anyStatus == {r \in surveys : r.slug = slug}

\* .from('surveys').select('*').eq('slug', slug).eq('status', 'active')
ActiveSurveysWithSlug == {r \in surveys : r.slug = slug /\ r.status = "active"}

\* fetchSurvey, first request answered with a row: .single() gives the row
\* when exactly one row matches.
FetchSurveyFound ==
    /\ pcFetch = "survey"
    /\ Cardinality(ActiveSurveysWithSlug) = 1
    /\ pcFetch' = "questions"
    /\ surveyData' = CHOOSE r \in ActiveSurveysWithSlug : TRUE
    /\ UNCHANGED <<adminPages, admin, store, slug, survey, currentQuestionIndex, answers, isLoading,
                   isSubmitting, error, route, pcSubmit, subAnswers, subResponse,
                   nSubmits>>

\* fetchSurvey, first request answered with an error (no row matches, several
\* do, or the request fails): throw new Error('Survey not found or not active')
FetchSurveyNotFound ==
    /\ pcFetch = "survey"
    /\ pcFetch' = "done"
    /\ error' = NotFoundMessage
    /\ isLoading' = FALSE
    /\ UNCHANGED <<adminPages, admin, store, slug, survey, currentQuestionIndex, answers, isSubmitting,
                   route, pcSubmit, subAnswers, subResponse, surveyData, nSubmits>>

\* fetchSurvey, second request answered: the survey's questions by order_index.
FetchQuestionsOk ==
    /\ pcFetch = "questions"
    /\ \E questionsData \in OrderByIndex({q \in questions : q.survey_id = surveyData.id}) :
          survey' = [id |-> surveyData.id, title |-> surveyData.title,
                     description |-> surveyData.description,
                     slug |-> surveyData.slug, status |-> surveyData.status,
                     questions |-> questionsData]
    /\ pcFetch' = "done"
    /\ isLoading' = FALSE
    /\ UNCHANGED <<adminPages, admin, store, slug, currentQuestionIndex, answers, isSubmitting, error,
                   route, pcSubmit, subAnswers, subResponse, surveyData, nSubmits>>

\* FetchQuestionsFails without the finally block.
FetchQuestionsFails_noFinally ==
    /\ pcFetch = "questions"
    /\ \E message \in BackendMessages : error' = OrElse(message, LoadFailedMessage)
    /\ pcFetch' = "done"
    /\ UNCHANGED <<adminPages, admin, store, slug, survey, currentQuestionIndex, answers, isLoading,
                   isSubmitting, route, pcSubmit, subAnswers, subResponse, surveyData, nSubmits>>

\* fetchSurvey, second request failed: throw questionsError.
FetchQuestionsFails ==
    /\ pcFetch = "questions"
    /\ \E message \in BackendMessages : error' = OrElse(message, LoadFailedMessage)
    /\ pcFetch' = "done"
    /\ isLoading' = FALSE
    /\ UNCHANGED <<adminPages, admin, store, slug, survey, currentQuestionIndex, answers, isSubmitting,
                   route, pcSubmit, subAnswers, subResponse, surveyData, nSubmits>>

\* What the page renders: the loading card, the not-found card, nothing, the
\* question card; "crashed" when the question card reads a question that is
\* not there (currentQuestion.question_text of undefined).
view ==
    IF route \in {"thank-you", "home"} THEN "left"
    ELSE IF isLoading THEN "loading"
    ELSE IF error # Null /\ survey = Null THEN "error"
    ELSE IF survey = Null THEN "blank"
    ELSE IF At(survey.questions, currentQuestionIndex) = Undefined THEN "crashed"
    ELSE "ready"

\* isLastQuestion with the comparison off by one.
isLastQuestion_offByOne == currentQuestionIndex = Len(survey.questions)

currentQuestion == At(survey.questions, currentQuestionIndex)

isLastQuestion == currentQuestionIndex = Len(survey.questions) - 1

\* handleAnswerChange that also clears the error.
handleAnswerChange_clearsError(questionId, value) ==
    /\ answers' = [k \in DOMAIN answers \cup {questionId} |->
                      IF k = questionId THEN value ELSE answers[k]]
    /\ error' = Null
    /\ UNCHANGED <<adminPages, admin, store, slug, survey, currentQuestionIndex, isLoading, isSubmitting,
                   route, pcFetch, pcSubmit, subAnswers, subResponse,
                   surveyData, nSubmits>>

\* handleAnswerChange(questionId, value)
handleAnswerChange(questionId, value) ==
    /\ answers' = [k \in DOMAIN answers \cup {questionId} |->
                      IF k = questionId THEN value ELSE answers[k]]
    /\ UNCHANGED <<adminPages, admin, store, slug, survey, currentQuestionIndex, isLoading, isSubmitting,
                   error, route, pcFetch, pcSubmit, subAnswers, subResponse,
                   surveyData, nSubmits>>

\* validateCurrentQuestion without the test for the empty string.
validateCurrentQuestion_noEmptyTest ==
    IF survey = Null THEN FALSE
    ELSE IF ~currentQuestion.required THEN TRUE
    ELSE LET answer == Get(answers, currentQuestion.id) IN
         answer # Undefined /\ answer # Null

\* validateCurrentQuestion()
validateCurrentQuestion ==
    IF survey = Null THEN FALSE
    ELSE IF ~currentQuestion.required THEN TRUE
    ELSE LET answer == Get(answers, currentQuestion.id) IN
         answer # Undefined /\ answer # StringValue(<< >>) /\ answer # Null

\* nextQuestion()
nextQuestion ==
    /\ IF ~validateCurrentQuestion
       THEN /\ error' = RequiredMessage
            /\ UNCHANGED currentQuestionIndex
       ELSE /\ error' = Null
            /\ currentQuestionIndex' = currentQuestionIndex + 1
    /\ UNCHANGED <<adminPages, admin, store, slug, survey, answers, isLoading, isSubmitting, route,
                   pcFetch, pcSubmit, subAnswers, subResponse, surveyData, nSubmits>>

\* previousQuestion with the check nextQuestion makes.
previousQuestion_validating ==
    /\ IF ~validateCurrentQuestion
       THEN /\ error' = RequiredMessage
            /\ UNCHANGED currentQuestionIndex
       ELSE /\ error' = Null
            /\ currentQuestionIndex' = currentQuestionIndex - 1
    /\ UNCHANGED <<adminPages, admin, store, slug, survey, answers, isLoading, isSubmitting, route,
                   pcFetch, pcSubmit, subAnswers, subResponse, surveyData, nSubmits>>

\* previousQuestion()
previousQuestion ==
    /\ error' = Null
    /\ currentQuestionIndex' = currentQuestionIndex - 1
    /\ UNCHANGED <<adminPages, admin, store, slug, survey, answers, isLoading, isSubmitting, route,
                   pcFetch, pcSubmit, subAnswers, subResponse, surveyData, nSubmits>>

\* The page is mounted until the navigation to the thank-you route commits;
\* a state setter called after that changes nothing.
Mounted == route \notin {"thank-you", "home"}

\* missingRequired with the filter keeping every required question.
missingRequired_allRequired ==
    IF \E i \in DOMAIN survey.questions :
          /\ survey.questions[i].required
          /\ Get(answers, survey.questions[i].id) \in {Undefined, StringValue(<< >>), Null}
    THEN SelectSeq(survey.questions, LAMBDA q : q.required)
    ELSE << >>

\* A required question counts as unanswered for undefined, '' and null.
missingRequired ==
    SelectSeq(survey.questions,
              LAMBDA q : q.required /\ (\/ Get(answers, q.id) = Undefined
                                        \/ Get(answers, q.id) = StringValue(<< >>)
                                        \/ Get(answers, q.id) = Null))

\* missingRequired.map(q => q.question_text)
QuestionTexts(qs) == [i \in DOMAIN qs |-> qs[i].question_text]

\* submitSurvey() up to its first await: the check of every required question,
\* then the response insert is sent.
submitSurvey ==
    /\ survey # Null
    /\ IF Len(missingRequired) > 0
       THEN /\ error' = MissingRequiredMessage(QuestionTexts(missingRequired))
            /\ UNCHANGED <<isSubmitting, pcSubmit, subAnswers, nSubmits>>
       ELSE /\ isSubmitting' = TRUE
            /\ error' = Null
            /\ pcSubmit' = "response"
            /\ subAnswers' = answers
            /\ nSubmits' = nSubmits + 1
    /\ UNCHANGED <<adminPages, admin, store, slug, survey, currentQuestionIndex, answers, isLoading,
                   route, pcFetch, subResponse, surveyData>>

\* The id the store gives a new response row.
NewResponseId == Cardinality(responses) + 1

\* encodeAnswer with the two ids in each other's place.
encodeAnswer_swappedIds(response_id, questionId, answer) ==
    [response_id |-> questionId,
     question_id |-> response_id,
     answer_text |-> IF typeof(answer) = "string" THEN answer ELSE Null,
     answer_choice |-> IF typeof(answer) = "object"
                       THEN StringValue(JSONstringify(answer)) ELSE Null]

\* One element of answersToInsert.
encodeAnswer(response_id, questionId, answer) ==
    [response_id |-> response_id,
     question_id |-> questionId,
     answer_text |-> IF typeof(answer) = "string" THEN answer ELSE Null,
     answer_choice |-> IF typeof(answer) = "object"
                       THEN StringValue(JSONstringify(answer)) ELSE Null]

\* Object.entries(answers).map(...)
answersToInsert(response_id, buffer) ==
    {encodeAnswer(response_id, k, buffer[k]) : k \in DOMAIN buffer}

\* The response insert succeeded; submitSurvey goes on to send the answer insert.
InsertResponseOk ==
    /\ pcSubmit = "response"
    /\ LET response == [id |-> NewResponseId, survey_id |-> survey.id,
                        participant_id |-> Null] IN
         /\ responses' = responses \cup {response}
         /\ subResponse' = response
    /\ pcSubmit' = "answers"
    /\ UNCHANGED <<adminPages, admin, surveys, questions, answerRows, nextQuestionId, slug, survey, currentQuestionIndex,
                   answers, isLoading, isSubmitting, error, route, pcFetch, subAnswers,
                   surveyData, nSubmits>>

\* SubmitCaught without the finally block.
SubmitCaught_noFinally ==
    /\ pcSubmit' = "idle"
    /\ IF Mounted
       THEN \E message \in BackendMessages :
               error' = OrElse(message, SubmitFailedMessage)
       ELSE UNCHANGED error
    /\ UNCHANGED <<adminPages, admin, store, slug, survey, currentQuestionIndex, answers, isLoading,
                   isSubmitting, route, pcFetch, subAnswers, subResponse, surveyData,
                   nSubmits>>

\* catch (err) { setError(...) } finally { setIsSubmitting(false) }
SubmitCaught ==
    /\ pcSubmit' = "idle"
    /\ IF Mounted
       THEN /\ \E message \in BackendMessages :
                  error' = OrElse(message, SubmitFailedMessage)
            /\ isSubmitting' = FALSE
       ELSE UNCHANGED <<error, isSubmitting>>
    /\ UNCHANGED <<adminPages, admin, store, slug, survey, currentQuestionIndex, answers, isLoading,
                   route, pcFetch, subAnswers, subResponse, surveyData, nSubmits>>

\* The response insert failed: throw responseError.
InsertResponseFails ==
    /\ pcSubmit = "response"
    /\ SubmitCaught

\* The answer insert succeeded: router.push('/survey/thank-you'), then finally.
InsertAnswersOk ==
    /\ pcSubmit = "answers"
    /\ answerRows' = answerRows \cup answersToInsert(subResponse.id, subAnswers)
    /\ pcSubmit' = "idle"
    /\ IF Mounted
       THEN /\ route' = "navigating"
            /\ isSubmitting' = FALSE
       ELSE UNCHANGED <<route, isSubmitting>>
    /\ UNCHANGED <<adminPages, admin, surveys, questions, responses, nextQuestionId, slug, survey, currentQuestionIndex,
                   answers, isLoading, error, pcFetch, subAnswers, subResponse,
                   surveyData, nSubmits>>

\* InsertAnswersFails with a compensating delete of the response row.
InsertAnswersFails_rollback ==
    /\ pcSubmit = "answers"
    /\ pcSubmit' = "idle"
    /\ responses' = responses \ {subResponse}
    /\ IF Mounted
       THEN /\ \E message \in BackendMessages :
                  error' = OrElse(message, SubmitFailedMessage)
            /\ isSubmitting' = FALSE
       ELSE UNCHANGED <<error, isSubmitting>>
    /\ UNCHANGED <<adminPages, admin, surveys, questions, answerRows, nextQuestionId, slug, survey, currentQuestionIndex,
                   answers, isLoading, route, pcFetch, subAnswers, subResponse,
                   surveyData, nSubmits>>

\* The answer insert failed: throw answersError.
InsertAnswersFails ==
    /\ pcSubmit = "answers"
    /\ SubmitCaught

\* The navigation router.push started commits: the survey page is unmounted.
NavigationCommits ==
    /\ route = "navigating"
    /\ route' = "thank-you"
    /\ UNCHANGED <<adminPages, admin, store, slug, survey, currentQuestionIndex, answers, isLoading,
                   isSubmitting, error, pcFetch, pcSubmit, subAnswers, subResponse,
                   surveyData, nSubmits>>

\* The error card's Go Home button: router.push('/')
GoHome ==
    /\ view = "error"
    /\ route' = "home"
    /\ UNCHANGED <<adminPages, admin, store, slug, survey, currentQuestionIndex, answers, isLoading,
                   isSubmitting, error, pcFetch, pcSubmit, subAnswers, subResponse,
                   surveyData, nSubmits>>

(* ----------------------- what the taker can enter ---------------------- *)

\* The texts typed into an Input or Textarea.
TextInputs == {<< >>, <<"hello">>}

\* The names of the files chosen in a file input.
FileNames == {<<"cv.pdf">>}

\* renderQuestion, case 'likert_scale'
scales == <<<<"Strongly Disagree">>, <<"Disagree">>, <<"Neutral">>, <<"Agree">>,
            <<"Strongly Agree">>>>

\* The scale items the taker picks among.
ScaleInputs == {scales[2], scales[4]}

\* question.options ? JSON.parse(question.options) : []
ParsedOptions(question) ==
    IF Truthy(question.options)
    THEN LET parsed == JSONparse(question.options.str) IN
         IF parsed.ok /\ parsed.value.type = "array" THEN parsed.value.arr ELSE << >>
    ELSE << >>

\* renderQuestion(question): the values its control hands to handleAnswerChange.
renderQuestion(question) ==
    CASE question.question_type \in {"short_answer", "long_answer"} ->
             {StringValue(t) : t \in TextInputs}
      [] question.question_type = "multiple_choice" ->
             {StringValue(ParsedOptions(question)[i]) : i \in DOMAIN ParsedOptions(question)}
      [] question.question_type = "likert_scale" ->
             {StringValue(t) : t \in ScaleInputs}
      [] question.question_type = "file_upload" ->
             {StringValue(t) : t \in FileNames}
      [] OTHER -> {}

\* While the navigation to the thank-you route is pending the page is still
\* on display; the taker is taken to have time for nothing but the Submit
\* button in that moment.
AtLeisure == route = "survey"

\* The taker uses the control of the question on display.
ChangeAnswer ==
    /\ view = "ready"
    /\ AtLeisure
    /\ \E value \in renderQuestion(currentQuestion) :
          handleAnswerChange(currentQuestion.id, value)

\* The Next button: rendered unless the last question is on display.
ClickNext ==
    /\ view = "ready"
    /\ AtLeisure
    /\ ~isLastQuestion
    /\ nextQuestion

\* The Previous button: disabled={currentQuestionIndex === 0}
ClickPrevious ==
    /\ view = "ready"
    /\ AtLeisure
    /\ currentQuestionIndex # 0
    /\ previousQuestion

\* The Submit button without disabled={isSubmitting}.
ClickSubmit_notDisabled ==
    /\ view = "ready"
    /\ isLastQuestion
    /\ nSubmits < MaxSubmits
    /\ submitSurvey

\* The Submit button: rendered on the last question, disabled={isSubmitting}
ClickSubmit ==
    /\ view = "ready"
    /\ isLastQuestion
    /\ ~isSubmitting
    /\ nSubmits < MaxSubmits
    /\ submitSurvey

(* ---------------------- the edit page: form and save ------------------- *)

\* z.string().max(200, 'Title too long')
MaxTitleLength == 200

\* The characters /^[a-z0-9-]+$/ lets through.
SlugCharacters ==
    {"a", "b", "c", "d", "e", "f", "g", "h", "i", "j", "k", "l", "m", "n", "o", "p",
     "q", "r", "s", "t", "u", "v", "w", "x", "y", "z",
     "0", "1", "2", "3", "4", "5", "6", "7", "8", "9", "-"}

\* questionSchema, with its refinement for multiple_choice
questionSchema(q) ==
    /\ Len(q.question_text) >= 1
    /\ q.question_type \in QuestionTypes
    /\ q.required \in BOOLEAN
    /\ q.order_index >= 0
    /\ q.question_type = "multiple_choice" =>
          (q.options # Undefined /\ Len(q.options.arr) >= 2)

\* surveySchema
surveySchema(data) ==
    /\ Len(data.title) >= 1
    /\ Len(data.title) <= MaxTitleLength
    /\ Len(data.slug) >= 1
    /\ \A i \in DOMAIN data.slug : data.slug[i] \in SlugCharacters
    /\ data.status \in Statuses

\* surveyWithQuestionsSchema without the schema of the questions.
surveyWithQuestionsSchema_surveyOnly(data) ==
    /\ surveySchema(data)
    /\ Len(data.questions) >= 1

\* surveyWithQuestionsSchema
surveyWithQuestionsSchema(data) ==
    /\ surveySchema(data)
    /\ Len(data.questions) >= 1
    /\ \A i \in DOMAIN data.questions : questionSchema(data.questions[i])

UpperCase ==
    <<"A", "B", "C", "D", "E", "F", "G", "H", "I", "J", "K", "L", "M", "N", "O", "P",
      "Q", "R", "S", "T", "U", "V", "W", "X", "Y", "Z">>

LowerCase ==
    <<"a", "b", "c", "d", "e", "f", "g", "h", "i", "j", "k", "l", "m", "n", "o", "p",
      "q", "r", "s", "t", "u", "v", "w", "x", "y", "z">>

\* title.toLowerCase()
toLowerCase(t) ==
    [i \in DOMAIN t |->
        IF \E j \in DOMAIN UpperCase : UpperCase[j] = t[i]
        THEN LowerCase[CHOOSE j \in DOMAIN UpperCase : UpperCase[j] = t[i]]
        ELSE t[i]]

\* The characters \s matches, of those typed here.
Whitespace == {" "}

\* The characters [a-z0-9] matches.
Alphanumeric == SlugCharacters \ {"-"}

\* t.replace(/[class]+/g, replacement) for a replacement of one character,
\* class given as the set of its characters: of every run of characters of
\* the class the last one becomes the replacement and the others go.
replaceRuns(t, class, replacement) ==
    LET marked == [i \in DOMAIN t |->
                      IF t[i] \notin class THEN <<t[i]>>
                      ELSE IF i < Len(t) /\ t[i + 1] \in class THEN << >>
                      ELSE <<replacement>>]
        kept == SelectSeq(marked, LAMBDA m : m # << >>)
    IN  [i \in DOMAIN kept |-> kept[i][1]]

\* t.trim()
trim(t) ==
    LET inked == {i \in DOMAIN t : t[i] \notin Whitespace} IN
    IF inked = {} THEN << >>
    ELSE SubSeq(t, CHOOSE i \in inked : \A j \in inked : i <= j,
                   CHOOSE i \in inked : \A j \in inked : i >= j)

\* generateSlug of the edit page
generateSlug(title) ==
    LET lower == toLowerCase(title)
        dashed == replaceRuns(lower, {lower[i] : i \in DOMAIN lower} \ Alphanumeric, "-")
        front == IF dashed # << >> /\ Head(dashed) = "-" THEN Tail(dashed) ELSE dashed
    IN  IF front # << >> /\ front[Len(front)] = "-"
        THEN SubSeq(front, 1, Len(front) - 1)
        ELSE front

\* generateSlug of the create page
createGenerateSlug(title) ==
    LET lower == toLowerCase(title)
        allowed == SlugCharacters \cup Whitespace
        kept == SelectSeq(lower, LAMBDA c : c \in allowed)
        dashed == replaceRuns(kept, Whitespace, "-")
    IN  trim(replaceRuns(dashed, {"-"}, "-"))

\* A title of one character more than the schema allows.
LongTitle == [i \in 1..(MaxTitleLength + 1) |-> "x"]

\* What an admin types into the title input.
TitleInputs == {<< >>, <<"M", "y", " ", "T", "!">>, LongTitle}

\* What an admin types into the slug input.
SlugInputs == {<<"s", "1">>, <<"S", "!">>}

\* useForm's defaultValues of the edit page
defaultValues ==
    [title |-> << >>, slug |-> << >>, description |-> << >>, status |-> "draft",
     questions |-> << >>]

\* loadSurvey: the form values made of the survey row and its question rows,
\* the rows already sorted by order_index.
formData(row, sorted) ==
    [title |-> row.title, slug |-> row.slug, description |-> row.description,
     status |-> row.status,
     questions |-> [i \in DOMAIN sorted |->
                      [question_text |-> sorted[i].question_text,
                       question_type |-> sorted[i].question_type,
                       options |-> IF Truthy(sorted[i].options)
                                   THEN JSONparse(sorted[i].options.str).value
                                   ELSE Undefined,
                       required |-> sorted[i].required,
                       order_index |-> sorted[i].order_index]]]

\* addQuestion(): append a blank question whose order_index is fields.length
addQuestion(fields) ==
    Append(fields, [question_text |-> << >>, question_type |-> "short_answer",
                    options |-> Undefined, required |-> FALSE,
                    order_index |-> Len(fields)])

\* remove(index) of useFieldArray, index 0-based
remove(fields, index) ==
    [i \in 1..(Len(fields) - 1) |-> IF i <= index THEN fields[i] ELSE fields[i + 1]]

\* What an admin types and picks for a question: its text, type, options and
\* whether it is required.
QuestionContents ==
    {[question_text |-> <<"N", "e", "w">>, question_type |-> "long_answer",
      options |-> Undefined, required |-> FALSE],
     [question_text |-> <<"P", "i", "c", "k">>, question_type |-> "multiple_choice",
      options |-> ArrayValue(<<<<"X">>, <<"Y">>>>), required |-> TRUE]}

\* The question's inputs set to content; order_index has no input.
fillQuestion(fields, index, content) ==
    [fields EXCEPT ![index + 1] =
        [question_text |-> content.question_text,
         question_type |-> content.question_type,
         options |-> content.options,
         required |-> content.required,
         order_index |-> fields[index + 1].order_index]]

\* onSubmit: data.questions.map((question, index) => ...), and the ids the
\* store gives the rows.
questionsToInsert(id, data, firstId) ==
    {[id |-> firstId + i - 1,
      survey_id |-> id,
      question_text |-> data.questions[i].question_text,
      question_type |-> data.questions[i].question_type,
      options |-> IF Truthy(data.questions[i].options)
                  THEN StringValue(JSONstringify(data.questions[i].options))
                  ELSE Null,
      required |-> data.questions[i].required,
      order_index |-> i - 1] : i \in DOMAIN data.questions}

\* The messages the edit page's catch sets: err.message when err is an Error.
UpdateFailedMessages ==
    {Message("Failed to update survey: backend error"),
     Message("Failed to update survey. Please try again.")}

\* loadSurvey answered: .eq('id', surveyId).single() with the questions embedded
LoadSurveyOk(a) ==
    /\ editPc[a] = "loading"
    /\ \E row \in surveys :
          /\ row.id = surveyId
          /\ \E sorted \in OrderByIndex({q \in questions : q.survey_id = surveyId}) :
                form' = [form EXCEPT ![a] = formData(row, sorted)]
    /\ editPc' = [editPc EXCEPT ![a] = "form"]
    /\ UNCHANGED <<store, taker, adminPages, editData, editError, editsLeft>>

\* loadSurvey failed: setError('Failed to load survey')
LoadSurveyFails(a) ==
    /\ editPc[a] = "loading"
    /\ editPc' = [editPc EXCEPT ![a] = "failed"]
    /\ editError' = [editError EXCEPT ![a] = LoadFailedMessage]
    /\ UNCHANGED <<store, taker, adminPages, form, editData, editsLeft>>

\* The admin changes the form: the form is on display and not being saved.
CanEdit(a) == editPc[a] = "form" /\ editsLeft[a] > 0

\* The status select: setValue('status', value)
EditSetStatus(a) ==
    /\ CanEdit(a)
    /\ \E value \in Statuses \ {form[a].status} :
          form' = [form EXCEPT ![a].status = value]
    /\ editsLeft' = [editsLeft EXCEPT ![a] = @ - 1]
    /\ UNCHANGED <<store, taker, adminPages, editPc, editData, editError>>

\* The title input of the edit page: the title, and the slug made of it
EditTypeTitle(a) ==
    /\ CanEdit(a)
    /\ \E title \in TitleInputs \ {form[a].title} :
          form' = [form EXCEPT ![a].title = title, ![a].slug = generateSlug(title)]
    /\ editsLeft' = [editsLeft EXCEPT ![a] = @ - 1]
    /\ UNCHANGED <<store, taker, adminPages, editPc, editData, editError>>

\* setValue(`questions.${index}.question_type`, value)
setQuestionType(fields, index, value) ==
    [fields EXCEPT ![index + 1].question_type = value]

\* The type select of one question of the form
EditSetQuestionType(a) ==
    /\ CanEdit(a)
    /\ \E i \in DOMAIN form[a].questions :
          \E value \in QuestionTypes \ {form[a].questions[i].question_type} :
             form' = [form EXCEPT ![a].questions = setQuestionType(@, i - 1, value)]
    /\ editsLeft' = [editsLeft EXCEPT ![a] = @ - 1]
    /\ UNCHANGED <<store, taker, adminPages, editPc, editData, editError>>

\* The Add Question button
EditAddQuestion(a) ==
    /\ CanEdit(a)
    /\ form' = [form EXCEPT ![a].questions = addQuestion(@)]
    /\ editsLeft' = [editsLeft EXCEPT ![a] = @ - 1]
    /\ UNCHANGED <<store, taker, adminPages, editPc, editData, editError>>

\* The inputs of one question of the form
EditFillQuestion(a) ==
    /\ CanEdit(a)
    /\ \E i \in DOMAIN form[a].questions : \E content \in QuestionContents :
          form' = [form EXCEPT ![a].questions = fillQuestion(@, i - 1, content)]
    /\ editsLeft' = [editsLeft EXCEPT ![a] = @ - 1]
    /\ UNCHANGED <<store, taker, adminPages, editPc, editData, editError>>

\* The trash button of one question of the form: remove(index)
EditRemoveQuestion(a) ==
    /\ CanEdit(a)
    /\ \E i \in DOMAIN form[a].questions :
          form' = [form EXCEPT ![a].questions = remove(@, i - 1)]
    /\ editsLeft' = [editsLeft EXCEPT ![a] = @ - 1]
    /\ UNCHANGED <<store, taker, adminPages, editPc, editData, editError>>

\* handleSubmit(onSubmit): onSubmit runs when the resolver accepts the form;
\* it sends the survey update.
EditSubmit(a) ==
    /\ editPc[a] = "form"
    /\ surveyWithQuestionsSchema(form[a])
    /\ editData' = [editData EXCEPT ![a] = form[a]]
    /\ editError' = [editError EXCEPT ![a] = Null]
    /\ editPc' = [editPc EXCEPT ![a] = "update"]
    /\ UNCHANGED <<store, taker, adminPages, form, editsLeft>>

\* catch (err) { setError(...) } finally { setIsSubmitting(false) }
EditCaught(a) ==
    /\ editPc' = [editPc EXCEPT ![a] = "form"]
    /\ \E message \in UpdateFailedMessages :
          editError' = [editError EXCEPT ![a] = message]
    /\ UNCHANGED <<store, taker, adminPages, form, editData, editsLeft>>

\* The store keeps slugs unique: no survey but id has the slug.
SlugFree(id, text) == \A row \in surveys : row.slug = text => row.id = id

\* The survey update went through; onSubmit sends the delete of the questions.
EditUpdateOk(a) ==
    /\ editPc[a] = "update"
    /\ SlugFree(surveyId, editData[a].slug)
    /\ surveys' = {IF row.id = surveyId
                   THEN [row EXCEPT !.title = editData[a].title,
                                    !.slug = editData[a].slug,
                                    !.description = editData[a].description,
                                    !.status = editData[a].status]
                   ELSE row : row \in surveys}
    /\ editPc' = [editPc EXCEPT ![a] = "delete"]
    /\ UNCHANGED <<questions, responses, answerRows, nextQuestionId, taker, adminPages, form,
                   editData, editError, editsLeft>>

EditUpdateFails(a) ==
    /\ editPc[a] = "update"
    /\ EditCaught(a)

\* The delete went through; onSubmit sends the insert of the form's questions.
EditDeleteOk(a) ==
    /\ editPc[a] = "delete"
    /\ questions' = {q \in questions : q.survey_id # surveyId}
    /\ editPc' = [editPc EXCEPT ![a] = "insert"]
    /\ UNCHANGED <<surveys, responses, answerRows, nextQuestionId, taker, adminPages, form,
                   editData, editError, editsLeft>>

EditDeleteFails(a) ==
    /\ editPc[a] = "delete"
    /\ EditCaught(a)

\* The insert went through: router.push('/admin/dashboard')
EditInsertOk(a) ==
    /\ editPc[a] = "insert"
    /\ questions' = questions \cup questionsToInsert(surveyId, editData[a], nextQuestionId)
    /\ nextQuestionId' = nextQuestionId + Len(editData[a].questions)
    /\ editPc' = [editPc EXCEPT ![a] = "done"]
    /\ UNCHANGED <<surveys, responses, answerRows, taker, adminPages, form, editData, editError,
                   editsLeft>>

EditInsertFails(a) ==
    /\ editPc[a] = "insert"
    /\ EditCaught(a)

\* The admins of opened have the edit page open, loading.
EditPagesOpen(opened) ==
    /\ editPc = [a \in Admins |-> IF a \in opened THEN "loading" ELSE "off"]
    /\ form = [a \in Admins |-> defaultValues]
    /\ editData = [a \in Admins |-> defaultValues]
    /\ editError = [a \in Admins |-> Null]
    /\ editsLeft = [a \in Admins |-> IF a \in opened THEN MaxEdits ELSE 0]

(* ------------------------------ the create page ----------------------- *)

\* useForm's defaultValues of the create page
createDefaultValues ==
    [title |-> << >>, description |-> << >>, slug |-> << >>, status |-> "draft",
     questions |-> <<[question_text |-> << >>, question_type |-> "short_answer",
                      options |-> Undefined, required |-> FALSE, order_index |-> 0]>>]

\* The create page is not open.
CreateClosed ==
    /\ createPc = "off"
    /\ createForm = createDefaultValues
    /\ createData = createDefaultValues
    /\ createError = Null
    /\ createUser = Null
    /\ createSurvey = Null
    /\ createEdits = 0

\* The create page has just been opened.
CreateOpen ==
    /\ createPc = "form"
    /\ createForm = createDefaultValues
    /\ createData = createDefaultValues
    /\ createError = Null
    /\ createUser = Null
    /\ createSurvey = Null
    /\ createEdits = MaxCreateEdits

\* The admin changes the create form: it is on display and not being saved.
CanEditCreate == createPc = "form" /\ createEdits > 0

\* One change of the create form to value.
CreateEdit(value) ==
    /\ CanEditCreate
    /\ createForm' = value
    /\ createEdits' = createEdits - 1
    /\ UNCHANGED <<store, taker, admin, session, results, createPc, createData,
                   createError, createUser, createSurvey>>

\* handleTitleChange: the title, and setValue('slug', generateSlug(title))
CreateTypeTitle ==
    \E title \in TitleInputs \ {createForm.title} :
       CreateEdit([createForm EXCEPT !.title = title,
                                     !.slug = createGenerateSlug(title)])

\* The slug input
CreateTypeSlug ==
    \E text \in SlugInputs \ {createForm.slug} :
       CreateEdit([createForm EXCEPT !.slug = text])

\* The status select: setValue('status', value)
CreateSetStatus ==
    \E value \in Statuses \ {createForm.status} :
       CreateEdit([createForm EXCEPT !.status = value])

\* The Add Question button of the create page
CreateAddQuestion ==
    /\ CanEditCreate
    /\ CreateEdit([createForm EXCEPT !.questions = addQuestion(@)])

\* The inputs of one question of the create form
CreateFillQuestion ==
    \E i \in DOMAIN createForm.questions : \E content \in QuestionContents :
       CreateEdit([createForm EXCEPT !.questions = fillQuestion(@, i - 1, content)])

\* The type select of one question of the create form
CreateSetQuestionType ==
    \E i \in DOMAIN createForm.questions :
       \E value \in QuestionTypes \ {createForm.questions[i].question_type} :
          CreateEdit([createForm EXCEPT !.questions = setQuestionType(@, i - 1, value)])

\* The trash button, rendered when fields.length > 1
CreateRemoveQuestion ==
    /\ Len(createForm.questions) > 1
    /\ \E i \in DOMAIN createForm.questions :
          CreateEdit([createForm EXCEPT !.questions = remove(@, i - 1)])

\* handleSubmit(onSubmit): onSubmit runs when the resolver accepts the form;
\* it asks for the current user.
CreateSubmit ==
    /\ createPc = "form"
    /\ surveyWithQuestionsSchema(createForm)
    /\ createData' = createForm
    /\ createError' = Null
    /\ createPc' = "user"
    /\ UNCHANGED <<store, taker, admin, session, results, createForm, createUser,
                   createSurvey, createEdits>>

\* The e-mail address of the admin who is signed in.
AdminEmail == StringValue(<<"admin@example.org">>)

\* supabase.auth.getUser() answered: the user, or null without a session;
\* onSubmit sends the survey insert.
CreateGetUser ==
    /\ createPc = "user"
    /\ createUser' = IF session THEN [email |-> AdminEmail] ELSE Null
    /\ createPc' = "survey"
    /\ UNCHANGED <<store, taker, admin, session, results, createForm, createData,
                   createError, createSurvey, createEdits>>

\* user?.email || 'Unknown User'
created_by(user) == IF user = Null THEN StringValue(<<"Unknown User">>) ELSE user.email

\* The id the store gives a new survey row.
NewSurveyId == Cardinality(surveys) + 1

\* catch (err) { setError(err.message || ...) } finally { setIsLoading(false) }
CreateCaught ==
    /\ createPc' = "form"
    /\ \E message \in BackendMessages :
          createError' =
             OrElse(message, Message("An error occurred while creating the survey"))
    /\ UNCHANGED <<store, taker, admin, session, results, createForm, createData,
                   createUser, createSurvey, createEdits>>

\* The survey insert went through; onSubmit sends the insert of the questions.
CreateSurveyOk ==
    /\ createPc = "survey"
    /\ SlugFree(NewSurveyId, createData.slug)
    /\ LET row == [id |-> NewSurveyId, title |-> createData.title,
                   description |-> createData.description, slug |-> createData.slug,
                   status |-> createData.status, created_by |-> created_by(createUser)]
       IN  /\ surveys' = surveys \cup {row}
           /\ createSurvey' = row
    /\ createPc' = "questions"
    /\ UNCHANGED <<questions, responses, answerRows, nextQuestionId, taker, admin,
                   session, results, createForm, createData, createError, createUser,
                   createEdits>>

CreateSurveyFails ==
    /\ createPc = "survey"
    /\ CreateCaught

\* The insert of the questions went through: router.push('/admin/dashboard')
CreateQuestionsOk ==
    /\ createPc = "questions"
    /\ questions' = questions \cup
                       questionsToInsert(createSurvey.id, createData, nextQuestionId)
    /\ nextQuestionId' = nextQuestionId + Len(createData.questions)
    /\ createPc' = "done"
    /\ UNCHANGED <<surveys, responses, answerRows, taker, admin, session, results,
                   createForm, createData, createError, createUser, createSurvey,
                   createEdits>>

CreateQuestionsFails ==
    /\ createPc = "questions"
    /\ CreateCaught

\* The results page is not open.
ResultsClosed ==
    /\ resPc = "off"
    /\ authPc = "off"
    /\ resRoute = "results"
    /\ resSurvey = Null
    /\ resResponses = << >>
    /\ analytics = Null
    /\ resLoading = TRUE
    /\ resLocals = Null
    /\ csvContent = Null

(* ------------------------- the taker's session ------------------------- *)

\* The slugs a taker may ask for.
Slugs == {<<"s", "1">>, <<"s", "9">>}

\* ['A', 'B'] as the create and edit pages store it.
TwoOptions == StringValue(JSONstringify(ArrayValue(<<<<"A">>, <<"B">>>>)))

\* Whether the question of each type is required in the stored surveys (both
\* kinds occur among the text questions and among the choice questions).
RequiredOf(t) == t \in {"short_answer", "multiple_choice", "file_upload"}

\* The questions a stored survey is made of: one of every type.
QuestionPool ==
    {[question_type |-> t, required |-> RequiredOf(t),
      options |-> IF t = "multiple_choice" THEN TwoOptions ELSE Null] :
        t \in QuestionTypes}

\* The decimal digit i as a character.
Digit(i) == <<"0", "1", "2", "3", "4", "5", "6", "7", "8", "9">>[i + 1]

\* The question rows of survey id built from the sequence qs of QuestionPool.
StoredQuestions(id, qs) ==
    {[id |-> i, survey_id |-> id, question_text |-> <<"Q", Digit(i)>>,
      question_type |-> qs[i].question_type, options |-> qs[i].options,
      required |-> qs[i].required, order_index |-> i - 1] : i \in DOMAIN qs}

TakerInit ==
    /\ slug \in Slugs
    /\ survey = Null
    /\ currentQuestionIndex = 0
    /\ answers = << >>
    /\ isLoading = TRUE
    /\ isSubmitting = FALSE
    /\ error = Null
    /\ route = "survey"
    /\ pcFetch = "survey"
    /\ pcSubmit = "idle"
    /\ subAnswers = << >>
    /\ subResponse = Null
    /\ surveyData = Null
    /\ nSubmits = 0

\* The question lists of the stored survey: up to MaxQuestions questions of
\* different types, in any order.
QuestionLists ==
    UNION {{qs \in [1..n -> QuestionPool] : \A i, j \in 1..n : i # j => qs[i] # qs[j]} :
             n \in 0..MaxQuestions}

\* One stored survey, in any status.
Init ==
    /\ \E status \in Statuses :
          surveys = {[id |-> 1, title |-> <<"T", "1">>, description |-> << >>,
                     slug |-> <<"s", "1">>, status |-> status,
                     created_by |-> AdminEmail]}
    /\ \E qs \in QuestionLists : questions = StoredQuestions(1, qs)
    /\ nextQuestionId = Cardinality(questions) + 1
    /\ responses = {}
    /\ answerRows = {}
    /\ TakerInit
    /\ EditPagesOpen({})
    /\ session = FALSE
    /\ ResultsClosed
    /\ CreateClosed

Next ==
    \/ FetchSurveyFound
    \/ FetchSurveyNotFound
    \/ FetchQuestionsOk
    \/ FetchQuestionsFails
    \/ ChangeAnswer
    \/ ClickNext
    \/ ClickPrevious
    \/ ClickSubmit
    \/ InsertResponseOk
    \/ InsertResponseFails
    \/ InsertAnswersOk
    \/ InsertAnswersFails
    \/ NavigationCommits
    \/ GoHome

Spec == Init /\ [][Next]_vars

\* Every request of fetchSurvey is answered in the end, with rows or with an
\* error.
SpecLoad ==
    /\ Init
    /\ [][Next]_vars
    /\ WF_vars(FetchSurveyFound \/ FetchSurveyNotFound)
    /\ WF_vars(FetchQuestionsOk \/ FetchQuestionsFails)

\* Every request of submitSurvey is answered in the end, with success or with
\* an error.
\* The stored survey of a taker who gets to submit: active, made of a
\* required and an optional text question in some order, or of one of them.
SubmitPool == {q \in QuestionPool : q.question_type \in {"short_answer", "long_answer"}}

InitSubmit ==
    /\ surveys = {[id |-> 1, title |-> <<"T", "1">>, description |-> << >>,
                   slug |-> <<"s", "1">>, status |-> "active",
                   created_by |-> AdminEmail]}
    /\ \E qs \in QuestionLists :
          /\ qs # << >>
          /\ \A i \in DOMAIN qs : qs[i] \in SubmitPool
          /\ questions = StoredQuestions(1, qs)
    /\ nextQuestionId = Cardinality(questions) + 1
    /\ responses = {}
    /\ answerRows = {}
    /\ TakerInit
    /\ EditPagesOpen({})
    /\ session = FALSE
    /\ ResultsClosed
    /\ CreateClosed

SpecSubmit ==
    /\ InitSubmit
    /\ [][Next]_vars
    /\ WF_vars(InsertResponseOk \/ InsertResponseFails)
    /\ WF_vars(InsertAnswersOk \/ InsertAnswersFails)

(* --------------------- sessions on the edit page ------------------------ *)

\* The stored survey the admins open: two questions.
EditedQuestions ==
    [i \in 1..2 |->
        [question_type |-> <<"short_answer", "multiple_choice">>[i],
         required |-> <<TRUE, FALSE>>[i],
         options |-> <<Null, TwoOptions>>[i]]]

\* The store the edit pages open on, and the taker about to load.
InitStore ==
    /\ \E status \in Statuses :
          surveys = {[id |-> surveyId, title |-> <<"T", "1">>, description |-> << >>,
                     slug |-> <<"s", "1">>, status |-> status,
                     created_by |-> AdminEmail]}
    /\ questions = StoredQuestions(surveyId, EditedQuestions)
    /\ nextQuestionId = Cardinality(questions) + 1
    /\ responses = {}
    /\ answerRows = {}
    /\ TakerInit

(* One admin edits the survey while a taker loads it. *)
InitEdit ==
    /\ InitStore
    /\ EditPagesOpen({"a1"})
    /\ session \in BOOLEAN
    /\ ResultsClosed
    /\ CreateClosed

NextEdit ==
    \/ FetchSurveyFound
    \/ FetchSurveyNotFound
    \/ FetchQuestionsOk
    \/ FetchQuestionsFails
    \/ \E a \in Admins : LoadSurveyOk(a)
    \/ \E a \in Admins : LoadSurveyFails(a)
    \/ \E a \in Admins : EditSetStatus(a)
    \/ \E a \in Admins : EditTypeTitle(a)
    \/ \E a \in Admins : EditSetQuestionType(a)
    \/ \E a \in Admins : EditAddQuestion(a)
    \/ \E a \in Admins : EditFillQuestion(a)
    \/ \E a \in Admins : EditRemoveQuestion(a)
    \/ \E a \in Admins : EditSubmit(a)
    \/ \E a \in Admins : EditUpdateOk(a)
    \/ \E a \in Admins : EditUpdateFails(a)
    \/ \E a \in Admins : EditDeleteOk(a)
    \/ \E a \in Admins : EditDeleteFails(a)
    \/ \E a \in Admins : EditInsertOk(a)
    \/ \E a \in Admins : EditInsertFails(a)

SpecEdit == InitEdit /\ [][NextEdit]_vars

(* A taker answers the survey while an admin edits and saves it. *)
InitShared ==
    /\ InitStore
    /\ slug = <<"s", "1">>
    /\ EditPagesOpen({"a1"})
    /\ session = TRUE
    /\ ResultsClosed
    /\ CreateClosed

NextShared ==
    \/ FetchSurveyFound
    \/ FetchSurveyNotFound
    \/ FetchQuestionsOk
    \/ FetchQuestionsFails
    \/ ChangeAnswer
    \/ ClickNext
    \/ ClickSubmit
    \/ InsertResponseOk
    \/ InsertResponseFails
    \/ InsertAnswersOk
    \/ InsertAnswersFails
    \/ LoadSurveyOk("a1")
    \/ EditSetStatus("a1")
    \/ EditRemoveQuestion("a1")
    \/ EditSubmit("a1")
    \/ EditUpdateOk("a1")
    \/ EditDeleteOk("a1")
    \/ EditInsertOk("a1")

SpecShared == InitShared /\ [][NextShared]_vars

(* Two admins edit the survey at once. *)
InitAdmin ==
    /\ InitStore
    /\ EditPagesOpen(Admins)
    /\ session = TRUE
    /\ ResultsClosed
    /\ CreateClosed

NextAdmin ==
    \/ \E a \in Admins : LoadSurveyOk(a)
    \/ \E a \in Admins : LoadSurveyFails(a)
    \/ \E a \in Admins : EditSetStatus(a)
    \/ \E a \in Admins : EditAddQuestion(a)
    \/ \E a \in Admins : EditFillQuestion(a)
    \/ \E a \in Admins : EditRemoveQuestion(a)
    \/ \E a \in Admins : EditSubmit(a)
    \/ \E a \in Admins : EditUpdateOk(a)
    \/ \E a \in Admins : EditUpdateFails(a)
    \/ \E a \in Admins : EditDeleteOk(a)
    \/ \E a \in Admins : EditDeleteFails(a)
    \/ \E a \in Admins : EditInsertOk(a)
    \/ \E a \in Admins : EditInsertFails(a)

SpecAdmin == InitAdmin /\ [][NextAdmin]_vars

(* An admin has the create page open, or the edit page of the stored survey. *)
InitForms ==
    /\ InitStore
    /\ session \in BOOLEAN
    /\ ResultsClosed
    /\ \/ EditPagesOpen({}) /\ CreateOpen
       \/ EditPagesOpen({"a1"}) /\ CreateClosed

NextForms ==
    \/ CreateTypeTitle
    \/ CreateTypeSlug
    \/ CreateSetStatus
    \/ CreateAddQuestion
    \/ CreateFillQuestion
    \/ CreateSetQuestionType
    \/ CreateRemoveQuestion
    \/ CreateSubmit
    \/ CreateGetUser
    \/ CreateSurveyOk
    \/ CreateSurveyFails
    \/ CreateQuestionsOk
    \/ CreateQuestionsFails
    \/ \E a \in Admins : LoadSurveyOk(a)
    \/ \E a \in Admins : LoadSurveyFails(a)
    \/ \E a \in Admins : EditSetStatus(a)
    \/ \E a \in Admins : EditTypeTitle(a)
    \/ \E a \in Admins : EditSetQuestionType(a)
    \/ \E a \in Admins : EditAddQuestion(a)
    \/ \E a \in Admins : EditFillQuestion(a)
    \/ \E a \in Admins : EditRemoveQuestion(a)
    \/ \E a \in Admins : EditSubmit(a)
    \/ \E a \in Admins : EditUpdateOk(a)
    \/ \E a \in Admins : EditUpdateFails(a)
    \/ \E a \in Admins : EditDeleteOk(a)
    \/ \E a \in Admins : EditDeleteFails(a)
    \/ \E a \in Admins : EditInsertOk(a)
    \/ \E a \in Admins : EditInsertFails(a)

SpecForms == InitForms /\ [][NextForms]_vars

(* ---------- the taker page's handlers, called on their own -------------- *)

\* nextQuestion() called while the question card is on display, whichever
\* buttons the card renders.
CallNextQuestion ==
    /\ view = "ready"
    /\ nextQuestion

\* previousQuestion() called while the question card is on display.
CallPreviousQuestion ==
    /\ view = "ready"
    /\ previousQuestion

NextHandlers ==
    \/ FetchSurveyFound
    \/ FetchSurveyNotFound
    \/ FetchQuestionsOk
    \/ FetchQuestionsFails
    \/ ChangeAnswer
    \/ CallNextQuestion
    \/ CallPreviousQuestion

SpecHandlers == Init /\ [][NextHandlers]_vars

(* ------------------------- the results page's decoder ------------------ *)

RECURSIVE join(_, _)
\* array.join(separator) for an array of strings
join(array, separator) ==
    IF array = << >> THEN << >>
    ELSE IF Len(array) = 1 THEN array[1]
    ELSE array[1] \o separator \o join(Tail(array), separator)

\* exportToCSV's cell for a question, with the table's 'No answer' default.
answerValue_noAnswerDefault(answer) ==
    IF answer = Undefined THEN <<"No answer">>
    ELSE IF Truthy(answer.answer_text) THEN answer.answer_text.str
    ELSE IF Truthy(answer.answer_choice)
         THEN LET choice == JSONparse(answer.answer_choice.str).value IN
              IF choice.type = "array" THEN join(choice.arr, <<",", " ">>)
              ELSE IF choice.type = "string" THEN choice.str
              ELSE <<"null">>
    ELSE <<"No answer">>

\* exportToCSV: the value decoded from an answer row, before it is turned
\* into the text of a cell: answer_text when truthy, else answer_choice parsed
\* when truthy, else ''.
exportChoice(answer) ==
    IF Truthy(answer.answer_text) THEN answer.answer_text
    ELSE IF Truthy(answer.answer_choice) THEN JSONparse(answer.answer_choice.str).value
    ELSE StringValue(<< >>)

\* exportToCSV: the cell written for a question, given the answer row found
\* for it (undefined when the response has none); a parsed null ends as the
\* empty cell (cell?.toString() || '').
answerValue(answer) ==
    IF answer = Undefined THEN << >>
    ELSE LET choice == exportChoice(answer) IN
         IF choice.type = "array" THEN join(choice.arr, <<",", " ">>)
         ELSE IF choice.type = "string" THEN choice.str
         ELSE << >>

(* --------------------------- the results page ------------------------- *)

NEWLINE == "\n"

RECURSIVE doubleQuotes(_)
\* cell.replace(/"/g, '""')
doubleQuotes(cell) ==
    IF cell = << >> THEN << >>
    ELSE IF Head(cell) = QUOTE THEN <<QUOTE, QUOTE>> \o doubleQuotes(Tail(cell))
    ELSE <<Head(cell)>> \o doubleQuotes(Tail(cell))

\* csvCell that leaves the quotes of the cell as they are.
csvCell_noDoubling(cell) == <<QUOTE>> \o cell \o <<QUOTE>>

\* `"${cell?.toString().replace(/"/g, '""') || ''}"`
csvCell(cell) == <<QUOTE>> \o doubleQuotes(cell) \o <<QUOTE>>

\* [headers, ...rows].map(row => row.map(...).join(',')).join('\n')
csvText(table) ==
    join([r \in DOMAIN table |->
             join([c \in DOMAIN table[r] |-> csvCell(table[r][c])], <<",">>)],
         <<NEWLINE>>)

\* response.id as text
IdText(id) == <<"r", Digit(id)>>

\* format(new Date(response.submitted_at), 'yyyy-MM-dd HH:mm:ss')
SubmittedAtText(response) == <<"2024-01-0", Digit(response.id), " 10:00:00">>

\* response.answers.find(a => a.question_id === question.id)
find(rows, question) ==
    IF \E a \in rows : a.question_id = question.id
    THEN CHOOSE a \in rows : a.question_id = question.id
    ELSE Undefined

\* exportToCSV's headers without the two leading columns.
headers_questionsOnly(qs) == [i \in DOMAIN qs |-> qs[i].question_text]

\* exportToCSV: headers
headers(qs) ==
    <<<<"Response ID">>, <<"Submitted At">>>> \o [i \in DOMAIN qs |-> qs[i].question_text]

\* exportToCSV: the row of one response
exportRow(response, qs) ==
    <<IdText(response.id), SubmittedAtText(response)>>
       \o [i \in DOMAIN qs |-> answerValue(find(response.answers, qs[i]))]

\* exportToCSV: [headers, ...rows]
exportTable(surveyShown, responsesShown) ==
    <<headers(surveyShown.questions)>>
       \o [r \in DOMAIN responsesShown |->
              exportRow(responsesShown[r], surveyShown.questions)]

(* generateAnalytics *)

NumberValue(n) == [type |-> "number", num |-> n]

\* The property names an object literal {} inherits from Object.prototype,
\* of those that occur as answers here.
ObjectPrototypeKeys == {<<"constructor">>}

\* answerCounts[key]
Property(object, key) ==
    IF key \in DOMAIN object THEN object[key]
    ELSE IF key \in ObjectPrototypeKeys THEN [type |-> "function"]
    ELSE Undefined

\* (value || 0) + 1: a number is counted up, anything else truthy is turned
\* into text and gets "1" appended.
OrZeroPlusOne(value) ==
    CASE value.type = "number" -> NumberValue(value.num + 1)
      [] value.type = "undefined" -> NumberValue(1)
      [] value.type = "function" ->
            StringValue(<<"function Object() { [native code] }", "1">>)
      [] value.type = "string" -> StringValue(value.str \o <<"1">>)

\* analyticsChoice reading answer_text only.
analyticsChoice_textOnly(answer) == answer.answer_text

\* generateAnalytics: the value decoded from an answer row: answer_choice
\* parsed when truthy, else answer_text.
analyticsChoice(answer) ==
    IF Truthy(answer.answer_choice) THEN JSONparse(answer.answer_choice.str).value
    ELSE answer.answer_text

\* The key an answer is counted under: choice[0] of an array, else the choice,
\* as a property name.
choiceKey(answer) ==
    LET choice == analyticsChoice(answer)
    IN  IF choice.type = "array"
        THEN IF choice.arr = << >> THEN <<"undefined">> ELSE choice.arr[1]
        ELSE IF choice.type = "string" THEN choice.str
        ELSE <<"null">>


RECURSIVE answerCounts(_, _)
\* questionResponses.forEach(answer => { answerCounts[key] = (answerCounts[key] || 0) + 1 })
\* starting from the object counts
answerCounts(questionResponses, counts) ==
    IF questionResponses = << >> THEN counts
    ELSE LET key == choiceKey(Head(questionResponses))
             value == OrZeroPlusOne(Property(counts, key))
         IN  answerCounts(Tail(questionResponses),
                          [k \in DOMAIN counts \cup {key} |->
                              IF k = key THEN value ELSE counts[k]])

RECURSIVE flatMapAnswers(_, _)
\* responses.flatMap(r => r.answers.filter(a => a.question_id === question.id))
flatMapAnswers(responsesShown, question) ==
    IF responsesShown = << >> THEN << >>
    ELSE LET found == find(Head(responsesShown).answers, question) IN
         (IF found = Undefined THEN << >> ELSE <<found>>)
            \o flatMapAnswers(Tail(responsesShown), question)

\* generateAnalytics: the entry of one question; chartData is given as the
\* map from fullAnswer to count.
questionAnalytics(question, responsesShown) ==
    LET questionResponses == flatMapAnswers(responsesShown, question) IN
    [questionId |-> question.id,
     questionText |-> question.question_text,
     questionType |-> question.question_type,
     responses |-> questionResponses,
     chartData |-> IF question.question_type \in {"multiple_choice", "likert_scale"}
                   THEN answerCounts(questionResponses, << >>)
                   ELSE << >>]

\* generateAnalytics(surveyData, questions, responses), the days' counts aside
generateAnalytics(questionsData, responsesShown) ==
    [totalResponses |-> Len(responsesShown),
     completionRate |-> 100,
     questionAnalytics |-> [i \in DOMAIN questionsData |->
                              questionAnalytics(questionsData[i], responsesShown)]]

\* The id of the survey in the results page's address.
resultsSurveyId == 1

\* The variables the results page leaves alone.
offResults == <<store, taker, admin, session, create>>

\* checkAuth: getSession answered; without a session router.push('/admin/login')
CheckAuth ==
    /\ authPc = "check"
    /\ authPc' = "done"
    /\ resRoute' = IF session THEN resRoute ELSE "login"
    /\ UNCHANGED <<offResults, resPc, resSurvey, resResponses, analytics, resLoading,
                   resLocals, csvContent>>

\* .from('surveys').select('*').eq('id', surveyId)
ResultsSurveyRows == {r \in surveys : r.id = resultsSurveyId}

\* fetchSurveyData, first request answered with the row.
ResultsSurveyOk ==
    /\ resPc = "survey"
    /\ Cardinality(ResultsSurveyRows) = 1
    /\ resPc' = "questions"
    /\ resLocals' = [surveyData |-> CHOOSE r \in ResultsSurveyRows : TRUE,
                     questionsData |-> << >>]
    /\ UNCHANGED <<offResults, authPc, resRoute, resSurvey, resResponses, analytics,
                   resLoading, csvContent>>

\* fetchSurveyData, a request answered with an error: catch logs it, finally
\* ends the loading.
ResultsFetchFails ==
    /\ resPc \in {"survey", "questions", "responses"}
    /\ resPc' = "done"
    /\ resLoading' = FALSE
    /\ UNCHANGED <<offResults, authPc, resRoute, resSurvey, resResponses, analytics,
                   resLocals, csvContent>>

\* fetchSurveyData, second request answered: setSurvey({...surveyData, questions})
ResultsQuestionsOk ==
    /\ resPc = "questions"
    /\ \E questionsData \in OrderByIndex({q \in questions : q.survey_id = resultsSurveyId}) :
          /\ resSurvey' = [id |-> resLocals.surveyData.id,
                           title |-> resLocals.surveyData.title,
                           description |-> resLocals.surveyData.description,
                           slug |-> resLocals.surveyData.slug,
                           status |-> resLocals.surveyData.status,
                           questions |-> questionsData]
          /\ resLocals' = [resLocals EXCEPT !.questionsData = questionsData]
    /\ resPc' = "responses"
    /\ UNCHANGED <<offResults, authPc, resRoute, resResponses, analytics, resLoading,
                   csvContent>>

\* The response rows of the survey, each with its answer rows; the latest
\* first (.order('submitted_at', { ascending: false }): the store gives the
\* ids in the order of submission).
ResponsesWithAnswers ==
    LET rows == {r \in responses : r.survey_id = resultsSurveyId}
        latestFirst == CHOOSE s \in [1..Cardinality(rows) -> rows] :
                          \A i, j \in DOMAIN s : i < j => s[i].id > s[j].id
    IN  [i \in DOMAIN latestFirst |->
            [id |-> latestFirst[i].id, survey_id |-> latestFirst[i].survey_id,
             answers |-> {a \in answerRows : a.response_id = latestFirst[i].id}]]

\* fetchSurveyData, third request answered: setResponses, generateAnalytics,
\* and finally setIsLoading(false).
ResultsResponsesOk ==
    /\ resPc = "responses"
    /\ resResponses' = ResponsesWithAnswers
    /\ analytics' = generateAnalytics(resLocals.questionsData, ResponsesWithAnswers)
    /\ resPc' = "done"
    /\ resLoading' = FALSE
    /\ UNCHANGED <<offResults, authPc, resRoute, resSurvey, resLocals, csvContent>>

\* The page shows its header with the Export CSV button.
ResultsShown == resRoute = "results" /\ ~resLoading /\ resSurvey # Null

\* exportToCSV(), on a click on Export CSV
exportToCSV ==
    IF resSurvey = Null \/ Len(resResponses) = 0 THEN csvContent
    ELSE csvText(exportTable(resSurvey, resResponses))

\* Export CSV is enabled: disabled={!responses.length}
CanExport == ResultsShown /\ Len(resResponses) # 0

ClickExport ==
    /\ CanExport
    /\ csvContent' = exportToCSV
    /\ UNCHANGED <<offResults, resPc, authPc, resRoute, resSurvey, resResponses,
                   analytics, resLoading, resLocals>>

\* The results page has just been opened.
ResultsOpen ==
    /\ resPc = "survey"
    /\ authPc = "check"
    /\ resRoute = "results"
    /\ resSurvey = Null
    /\ resResponses = << >>
    /\ analytics = Null
    /\ resLoading = TRUE
    /\ resLocals = Null
    /\ csvContent = Null

(* --------------------- sessions on the results page -------------------- *)

\* The options of the stored choice question: one of them is named like a
\* property every object has.
ResultOptions == <<<<"A">>, <<"constructor">>>>

\* The questions the surveyed survey is made of: a free-text question and a
\* choice question (the answers to a likert_scale question are stored and
\* tallied as those to a multiple_choice question are).
ResultsPool ==
    {[question_type |-> "long_answer", required |-> FALSE, options |-> Null],
     [question_type |-> "multiple_choice", required |-> TRUE,
      options |-> StringValue(JSONstringify(ArrayValue(ResultOptions)))]}

ResultsQuestionLists ==
    UNION {{qs \in [1..n -> ResultsPool] : \A i, j \in 1..n : i # j => qs[i] # qs[j]} :
             n \in 0..MaxQuestions}

\* What a taker may have answered to a question.
AnswersTo(question) ==
    CASE question.question_type = "multiple_choice" ->
            {StringValue(ResultOptions[i]) : i \in DOMAIN ResultOptions}
      [] OTHER -> {StringValue(<< >>),
                   StringValue(<<"He said ", QUOTE, "hi", QUOTE>>),
                   StringValue(<<"a", ",", " b", NEWLINE, "c">>)}

\* The answer rows of response id: a taker's buffer over some of the
\* questions, encoded as submitSurvey does.
AnswerRowSets(id) ==
    {answersToInsert(id, buffer) :
        buffer \in UNION {{b \in [ids -> UNION {AnswersTo(q) : q \in questions}] :
                              \A q \in questions : q.id \in ids => b[q.id] \in AnswersTo(q)} :
                          ids \in SUBSET {q.id : q \in questions}}}

\* A survey with up to MaxResponses responses, and the results page opened on it.
InitResults ==
    /\ surveys = {[id |-> 1, title |-> <<"T", "1">>, description |-> << >>,
                   slug |-> <<"s", "1">>, status |-> "active",
                   created_by |-> AdminEmail]}
    /\ \E qs \in ResultsQuestionLists : questions = StoredQuestions(1, qs)
    /\ nextQuestionId = Cardinality(questions) + 1
    /\ \E n \in 0..MaxResponses :
          /\ responses = {[id |-> i, survey_id |-> 1, participant_id |-> Null] : i \in 1..n}
          /\ \E rowsOf \in [1..n -> UNION {AnswerRowSets(i) : i \in 1..n}] :
                /\ \A i \in 1..n : rowsOf[i] \in AnswerRowSets(i)
                /\ answerRows = UNION {rowsOf[i] : i \in 1..n}
    /\ TakerInit
    /\ slug = <<"s", "1">>
    /\ EditPagesOpen({})
    /\ CreateClosed
    /\ session \in BOOLEAN
    /\ ResultsOpen

\* The values submitSurvey can be handed for an answer: texts, the empty one
\* among them, arrays of texts, and null.
DecoderValues ==
    {StringValue(<< >>), StringValue(<<"A">>), StringValue(<<"[", QUOTE, "A", QUOTE, "]">>),
     ArrayValue(<< >>), ArrayValue(<<<<"A">>>>), ArrayValue(<<<<"A">>, <<"B">>>>), Null}

\* A survey of one choice question with up to MaxResponses responses, each
\* with the answer row submitSurvey builds for one of DecoderValues, and the
\* results page opened on it.
InitDecoders ==
    /\ surveys = {[id |-> 1, title |-> <<"T", "1">>, description |-> << >>,
                   slug |-> <<"s", "1">>, status |-> "active",
                   created_by |-> AdminEmail]}
    /\ \E qs \in ResultsQuestionLists :
          /\ Len(qs) = 1
          /\ qs[1].question_type = "multiple_choice"
          /\ questions = StoredQuestions(1, qs)
    /\ nextQuestionId = Cardinality(questions) + 1
    /\ \E n \in 0..MaxResponses :
          /\ responses = {[id |-> i, survey_id |-> 1, participant_id |-> Null] : i \in 1..n}
          /\ \E value \in [1..n -> DecoderValues] :
                answerRows = {encodeAnswer(i, 1, value[i]) : i \in 1..n}
    /\ TakerInit
    /\ slug = <<"s", "1">>
    /\ EditPagesOpen({})
    /\ CreateClosed
    /\ session \in BOOLEAN
    /\ ResultsOpen

NextResults ==
    \/ CheckAuth
    \/ ResultsSurveyOk
    \/ ResultsFetchFails
    \/ ResultsQuestionsOk
    \/ ResultsResponsesOk
    \/ ClickExport

SpecResults == InitResults /\ [][NextResults]_vars

SpecDecoders == InitDecoders /\ [][NextResults]_vars

(* ======================= the taker's page: claims ====================== *)

\* C1: once a survey with at least one question is loaded, currentQuestionIndex
\* is at least 0 and below the number of questions, in every reachable state.
C1_IndexInRange ==
    (survey # Null /\ Len(survey.questions) >= 1) =>
        (currentQuestionIndex >= 0 /\ currentQuestionIndex < Len(survey.questions))

\* The taker has answered, advanced to the last of several questions and
\* submitted.
C1_Witness ==
    /\ survey # Null
    /\ Len(survey.questions) >= 2
    /\ currentQuestionIndex = Len(survey.questions) - 1
    /\ answers # << >>
    /\ nSubmits >= 1

\* The buffer holds no answer for question q: absent, null or the empty string.
Unanswered(q) == Get(answers, q.id) \in {Undefined, Null, StringValue(<< >>)}

\* C2: nextQuestion on a required question without an answer leaves the index
\* and sets the validation error; on a required question with a non-empty
\* answer it adds exactly 1 to the index and clears the error.
C2_AdvanceGated ==
    [][(view = "ready" /\ currentQuestion.required /\ nextQuestion) =>
          IF Unanswered(currentQuestion)
          THEN currentQuestionIndex' = currentQuestionIndex /\ error' = RequiredMessage
          ELSE currentQuestionIndex' = currentQuestionIndex + 1 /\ error' = Null]_vars

\* nextQuestion was refused on the required question on display, which has
\* been answered since: the next nextQuestion is the one the claim is about.
C2_Witness ==
    /\ view = "ready"
    /\ currentQuestion.required
    /\ ~Unanswered(currentQuestion)
    /\ error = RequiredMessage
    /\ ~isLastQuestion

\* The required questions of the loaded survey without an answer, in order.
UnansweredRequired ==
    SelectSeq(survey.questions, LAMBDA q : q.required /\ Unanswered(q))

\* C3: submitSurvey with a required question unanswered, the one on display
\* or another, sets an error listing the texts of exactly the unanswered
\* required questions, inserts no row and sends no request.
C3_SubmitRefused ==
    [][(view = "ready" /\ submitSurvey /\ UnansweredRequired # << >>) =>
          /\ error' = MissingRequiredMessage(QuestionTexts(UnansweredRequired))
          /\ responses' = responses
          /\ answerRows' = answerRows
          /\ pcSubmit' = "idle"
          /\ isSubmitting' = FALSE]_vars

\* A submit was refused for a question that is still unanswered.
C3_Witness ==
    /\ view = "ready"
    /\ UnansweredRequired # << >>
    /\ error = MissingRequiredMessage(QuestionTexts(UnansweredRequired))
    /\ responses = {}

\* C4: a submission whose inserts succeed adds one response row of the loaded
\* survey while no answer row refers to it, then one answer row for each key
\* of the buffer it was started with, each with that response's id and the
\* key as question_id, and then leaves for the thank-you route.
C4_SubmitWrites ==
    [][/\ InsertResponseOk =>
            \E r \in responses' :
               /\ r \notin responses
               /\ responses' = responses \cup {r}
               /\ \A old \in responses : old.id # r.id
               /\ r.survey_id = survey.id
               /\ answerRows' = answerRows
               /\ \A row \in answerRows : row.response_id # r.id
       /\ InsertAnswersOk =>
            LET new == answerRows' \ answerRows IN
               /\ responses' = responses
               /\ subResponse \in responses
               /\ Cardinality(new) = Cardinality(DOMAIN subAnswers)
               /\ \A k \in DOMAIN subAnswers :
                     Cardinality({row \in new : row.question_id = k}) = 1
               /\ \A row \in new : row.response_id = subResponse.id
               /\ \A row \in answerRows : row.response_id # subResponse.id
               /\ route' \in {"navigating", "thank-you"}]_vars

\* A first submission went through with two answers in the buffer.
C4_Witness ==
    /\ route = "navigating"
    /\ Cardinality(responses) = 1
    /\ Cardinality(answerRows) = 2

\* C5 as stated: a session that has reached the thank-you route has exactly
\* one response row.
C5_OneResponsePerSession == route = "thank-you" => Cardinality(responses) = 1

\* C5 as amended: every successful response insert adds one response row and
\* no step removes one, so there are as many rows as such inserts: at least
\* one for a session that reached the thank-you route, none before the first
\* submission, and never more than the submissions made.
C5_OneResponsePerInsert ==
    /\ [](/\ route \in {"navigating", "thank-you"} => Cardinality(responses) >= 1
          /\ Cardinality(responses) <= nSubmits)
    /\ [][IF pcSubmit = "response" /\ pcSubmit' = "answers"
          THEN Cardinality(responses') = Cardinality(responses) + 1
               /\ responses \subseteq responses'
          ELSE responses' = responses]_vars

\* The session reached the thank-you route on a retry after a failed answer
\* insert: two response rows.
C5_Witness == route = "thank-you" /\ Cardinality(responses) = 2

\* The stored question an answer row refers to.
QuestionOf(row) == CHOOSE q \in questions : q.id = row.question_id

\* C6 as stated: every stored answer row has exactly one of answer_text and
\* answer_choice, answer_text for the text and file types and answer_choice
\* for multiple_choice and likert_scale.
C6_ColumnByType ==
    \A row \in answerRows :
       IF QuestionOf(row).question_type \in {"multiple_choice", "likert_scale"}
       THEN row.answer_text = Null /\ row.answer_choice # Null
       ELSE row.answer_text # Null /\ row.answer_choice = Null

\* C7: the cell exportToCSV derives from the row submitSurvey builds for a
\* value of the buffer is that value again, for every value in the buffer.
C7_RoundTrip ==
    \A k \in DOMAIN answers :
       StringValue(answerValue(encodeAnswer(NewResponseId, k, answers[k]))) = answers[k]

\* The buffer holds an empty text and a picked option, and rows were stored.
C7_Witness ==
    /\ \E k \in DOMAIN answers : answers[k] = StringValue(<< >>)
    /\ \E k \in DOMAIN answers : answers[k] = StringValue(<<"A">>)
    /\ answerRows # {}

\* The stored surveys with the requested slug whose status is active.
ActiveNow == {r \in surveys : r.slug = slug /\ r.status = "active"}

\* C8: the taker page has a survey set (the ready state) only if, when the
\* first request of the load was answered, a stored survey had the requested
\* slug and status active, and that survey is the one set; when no stored
\* survey has the slug with status active, the answer of the first request
\* ends the load in the not-found error state with no survey set; and the
\* error state never has a survey set.
C8_ReadyOnlyIfActive ==
    /\ [](survey # Null =>
            /\ pcFetch = "done"
            /\ survey.slug = slug
            /\ survey.status = "active"
            /\ survey.id = surveyData.id)
    /\ [](view = "error" => survey = Null)
    /\ [][pcFetch = "survey" /\ pcFetch' # "survey" =>
            IF pcFetch' = "questions"
            THEN surveyData' \in ActiveNow /\ survey' = Null
            ELSE /\ pcFetch' = "done"
                 /\ error' = NotFoundMessage
                 /\ survey' = Null
                 /\ ~isLoading'
                 /\ view' = "error"]_vars
    /\ [][pcFetch = "survey" /\ pcFetch' # "survey" /\ ActiveNow = {} =>
            pcFetch' = "done" /\ view' = "error" /\ survey' = Null]_vars

\* C8 witness: the page is ready with the survey it fetched while the stored
\* survey has since been saved with another status.
C8_Witness ==
    /\ view = "ready"
    /\ \E r \in surveys : r.id = survey.id /\ r.status # "active"

\* What a question row holds besides its id.
Content(q) ==
    [survey_id |-> q.survey_id, question_text |-> q.question_text,
     question_type |-> q.question_type, options |-> q.options,
     required |-> q.required, order_index |-> q.order_index]

\* The stored question rows of the edited survey.
StoredOfSurvey == {q \in questions : q.survey_id = surveyId}

\* What the save of data alone leaves as the survey's questions, ids aside.
QuestionsSaved(data) == {Content(q) : q \in questionsToInsert(surveyId, data, 1)}

\* C9: when an edit save completes (its insert of the questions went through),
\* the stored questions of the survey are exactly the questions of the saved
\* form, one row each, with order_index 0..N-1 in the order of the form.
C9_DenseAfterSave ==
    [][\A a \in Admins :
          editPc[a] = "insert" /\ editPc'[a] = "done" =>
             LET stored == {q \in questions' : q.survey_id = surveyId}
                 N == Len(editData[a].questions)
             IN  /\ Cardinality(stored) = N
                 /\ {q.order_index : q \in stored} = 0..(N - 1)
                 /\ {Content(q) : q \in stored} = QuestionsSaved(editData[a])]_vars

\* What the save of data alone leaves as the survey row.
RowSaved(data) ==
    [id |-> surveyId, title |-> data.title, description |-> data.description,
     slug |-> data.slug, status |-> data.status, created_by |-> AdminEmail]

\* C10: once both admins' saves have completed, the stored survey row and the
\* stored questions are what one of the two saves alone would have written.
C10_LastWriterWins ==
    (\A a \in Admins : editPc[a] = "done") =>
       \E a \in Admins :
          /\ surveys = {RowSaved(editData[a])}
          /\ Cardinality(StoredOfSurvey) = Len(editData[a].questions)
          /\ {Content(q) : q \in StoredOfSurvey} = QuestionsSaved(editData[a])

(* ===================== the admin's pages: claims ======================= *)

\* The data of every save that has been started and not given up: the create
\* page's and the edit pages'.
SavesStarted ==
    {createData : x \in {1} \cap {IF createPc \in {"user", "survey", "questions", "done"}
                                  THEN 1 ELSE 0}}
    \cup {editData[a] : a \in {b \in Admins :
                                  editPc[b] \in {"update", "delete", "insert", "done"}}}

\* C11: without a session no admin page gets past its entry: the create page
\* and the edit page do not go on to display their form and send a save, the
\* session check on entry having sent the admin to /admin/login.
C11_NoSessionNoAdminPage ==
    ~session =>
       /\ createPc \in {"off", "form"}
       /\ \A a \in Admins : editPc[a] \in {"off", "loading", "form", "failed"}

\* The entries of an options array that are not empty.
NonEmptyEntries(options) == SelectSeq(options.arr, LAMBDA o : o # << >>)

\* C12: every multiple_choice question of a save the schema let through has
\* options with at least 2 non-empty entries, and every stored question of
\* another type has no options stored with it.
C12_OptionsByType ==
    /\ \A data \in SavesStarted : \A i \in DOMAIN data.questions :
          data.questions[i].question_type = "multiple_choice" =>
             /\ data.questions[i].options # Undefined
             /\ Len(NonEmptyEntries(data.questions[i].options)) >= 2
    /\ \A q \in questions : q.question_type # "multiple_choice" => q.options = Null

\* What the claim asks of the data of a save.
FormIsValid(data) ==
    /\ Len(data.title) >= 1
    /\ Len(data.title) <= 200
    /\ Len(data.slug) >= 1
    /\ \A i \in DOMAIN data.slug : data.slug[i] \in Alphanumeric \cup {"-"}
    /\ data.status \in {"draft", "active", "closed"}
    /\ Len(data.questions) >= 1
    /\ \A i \in DOMAIN data.questions : Len(data.questions[i].question_text) >= 1

\* C13: the data of every save that was started, on the create page or on an
\* edit page, has a title of 1 to 200 characters, a slug of [a-z0-9-]+, a
\* status of the enum, at least one question and no question without text;
\* and every survey row a step writes carries such a title, slug and status.
C13_NoWriteOfInvalidForm ==
    /\ [](\A data \in SavesStarted : FormIsValid(data))
    /\ [][\A row \in surveys' \ surveys :
             /\ Len(row.title) \in 1..200
             /\ Len(row.slug) >= 1
             /\ \A i \in DOMAIN row.slug : row.slug[i] \in Alphanumeric \cup {"-"}
             /\ row.status \in {"draft", "active", "closed"}]_vars

\* C13 witness: the create page has inserted the survey of a form that was
\* made valid by typing, and is about to insert its questions.
C13_Witness ==
    /\ createPc = "questions"
    /\ createSurvey \in surveys
    /\ createSurvey.title = createData.title
    /\ createSurvey.slug = <<"m", "y", "-", "t">>

\* C14: a survey row that appears in the store has status draft, and the
\* status of a stored survey changes only in the update of an edit save.
C14_DraftUntilEdited ==
    [][/\ \A row \in surveys' :
             (\A old \in surveys : old.id # row.id) => row.status = "draft"
       /\ \A old \in surveys : \A row \in surveys' :
             (old.id = row.id /\ old.status # row.status) =>
                \E a \in Admins : EditUpdateOk(a)]_vars

\* The messages a failed submission leaves for display.
SubmitErrors == {OrElse(message, SubmitFailedMessage) : message \in BackendMessages}

\* C15: when the response insert or the answer insert of a submission fails
\* with the question card on display, an error message is set, the card stays
\* on display with currentQuestionIndex, the buffer and the survey unchanged,
\* isSubmitting is false again and the route is not changed.
C15_FailureKeepsForm ==
    [][(view = "ready" /\ (InsertResponseFails \/ InsertAnswersFails)) =>
          /\ error' \in SubmitErrors
          /\ view' = "ready"
          /\ currentQuestionIndex' = currentQuestionIndex
          /\ answers' = answers
          /\ survey' = survey
          /\ ~isSubmitting'
          /\ pcSubmit' = "idle"
          /\ route' = route]_vars

\* C15 witness: the response insert of a submission with answers failed; the
\* card shows the error over the same buffer, ready for another Submit.
C15_Witness ==
    /\ view = "ready"
    /\ route = "survey"
    /\ error = SubmitFailedMessage
    /\ ~isSubmitting
    /\ isLastQuestion
    /\ DOMAIN answers # {}
    /\ answers = subAnswers
    /\ responses = {}

\* The answer rows of rows that belong to response r.
RowsOf(r, rows) == {row \in rows : row.response_id = r.id}

\* C16: when the answer insert fails, the response row inserted before it
\* stays stored with no answer row; no step ever removes a response row, and
\* answer rows are only ever added for the response of the submission that
\* is waiting for its answer insert, so the row stays without answers.
C16_OrphanStays ==
    [][/\ InsertAnswersFails =>
             /\ subResponse \in responses
             /\ responses' = responses
             /\ RowsOf(subResponse, answerRows') = {}
       /\ responses \subseteq responses'
       /\ \A r \in responses :
             (pcSubmit # "answers" \/ r # subResponse) =>
                RowsOf(r, answerRows') = RowsOf(r, answerRows)]_vars

\* C16 witness: a submission with answers in its buffer went through while
\* the response row of an earlier, failed one is still stored without answers.
C16_Witness ==
    \E orphan \in responses :
       /\ RowsOf(orphan, answerRows) = {}
       /\ DOMAIN subAnswers # {}
       /\ subResponse \in responses
       /\ subResponse # orphan
       /\ RowsOf(subResponse, answerRows) # {}

\* C20: nextQuestion() with the last question on display leaves
\* currentQuestionIndex as it is, and so does previousQuestion() with the
\* first question on display.
C20_NoOpAtTheEnds ==
    [][survey # Null =>
          /\ currentQuestionIndex = Len(survey.questions) - 1 =>
                currentQuestionIndex' <= currentQuestionIndex
          /\ currentQuestionIndex = 0 => currentQuestionIndex' >= 0]_vars


(* ====================== the results page: claims ====================== *)

RECURSIVE unescapeBody(_)
\* A reader of a quoted field's inside: a pair of quotes stands for one quote;
\* a single quote is not allowed there.
unescapeBody(t) ==
    IF t = << >> THEN [ok |-> TRUE, str |-> << >>]
    ELSE IF Head(t) # QUOTE
         THEN LET r == unescapeBody(Tail(t)) IN
              [ok |-> r.ok, str |-> <<Head(t)>> \o r.str]
    ELSE IF Len(t) >= 2 /\ t[2] = QUOTE
         THEN LET r == unescapeBody(Tail(Tail(t))) IN
              [ok |-> r.ok, str |-> <<QUOTE>> \o r.str]
    ELSE [ok |-> FALSE, str |-> << >>]

\* A reader of a written cell: the wrapping quotes taken off, the inside read.
unescape(written) ==
    IF Len(written) < 2 \/ Head(written) # QUOTE \/ written[Len(written)] # QUOTE
    THEN [ok |-> FALSE, str |-> << >>]
    ELSE unescapeBody(SubSeq(written, 2, Len(written) - 1))

\* The number of double quotes in t.
Quotes(t) == Cardinality({i \in DOMAIN t : t[i] = QUOTE})

\* The cells of the table the page writes from what it shows.
CellsWritten ==
    LET table == exportTable(resSurvey, resResponses) IN
    {table[r][c] : r \in DOMAIN table, c \in 1..(2 + Len(resSurvey.questions))}

\* C19: every cell of a written file is wrapped in double quotes with each
\* double quote of the cell's value doubled, and reading the written cell
\* back gives the cell's value, whatever it holds.
C19_CellRoundTrip ==
    csvContent # Null =>
       \A cell \in CellsWritten :
          LET written == csvCell(cell) IN
          /\ Len(written) = Len(cell) + Quotes(cell) + 2
          /\ Head(written) = QUOTE
          /\ written[Len(written)] = QUOTE
          /\ Quotes(written) = 2 * Quotes(cell) + 2
          /\ unescape(written) = [ok |-> TRUE, str |-> cell]

\* C19 witness: a file was written with a cell that holds quotes, a cell that
\* holds a comma and a line break, and an empty cell.
C19_Witness ==
    /\ csvContent # Null
    /\ \E cell \in CellsWritten : Quotes(cell) > 0
    /\ \E cell \in CellsWritten :
          \E i, j \in DOMAIN cell : cell[i] = "," /\ cell[j] = NEWLINE
    /\ << >> \in CellsWritten


RECURSIVE readCSV(_, _, _, _, _)
\* A reader of a comma-separated file: within quotes a pair of quotes is a
\* quote and commas and line breaks are text; outside quotes a comma ends
\* the cell and a line break ends the record.
readCSV(t, inQuotes, cell, row, rows) ==
    IF t = << >> THEN Append(rows, Append(row, cell))
    ELSE IF inQuotes
         THEN IF Head(t) # QUOTE
              THEN readCSV(Tail(t), TRUE, Append(cell, Head(t)), row, rows)
              ELSE IF Len(t) >= 2 /\ t[2] = QUOTE
                   THEN readCSV(Tail(Tail(t)), TRUE, Append(cell, QUOTE), row, rows)
                   ELSE readCSV(Tail(t), FALSE, cell, row, rows)
    ELSE IF Head(t) = QUOTE THEN readCSV(Tail(t), TRUE, cell, row, rows)
    ELSE IF Head(t) = "," THEN readCSV(Tail(t), FALSE, << >>, Append(row, cell), rows)
    ELSE IF Head(t) = NEWLINE
         THEN readCSV(Tail(t), FALSE, << >>, << >>, Append(rows, Append(row, cell)))
    ELSE readCSV(Tail(t), FALSE, Append(cell, Head(t)), row, rows)

\* The records of the written file.
Records == readCSV(csvContent, FALSE, << >>, << >>, << >>)

\* The lines of the written file.
Lines == Cardinality({i \in DOMAIN csvContent : csvContent[i] = NEWLINE}) + 1

\* The texts of the questions the page shows, in their order.
ShownQuestionTexts == [i \in DOMAIN resSurvey.questions |-> resSurvey.questions[i].question_text]

\* C18 as stated: a written file has one line more than there are responses,
\* every row has one column per question, and the header row is the
\* question texts.
C18_LinesAndQuestionColumns ==
    csvContent # Null =>
       LET records == Records IN
       /\ Lines = Len(resResponses) + 1
       /\ \A r \in DOMAIN records : Len(records[r]) = Len(resSurvey.questions)
       /\ records[1] = ShownQuestionTexts

\* C18: a file is written only for at least one response; it holds one header
\* record and then one record per response, in the order shown; every record
\* has the response id and the submission time and then one cell per question
\* in survey order, holding the decoded answer; the header record is
\* 'Response ID', 'Submitted At' and then the question texts; the file has at
\* least as many lines as records.
C18_RecordsAndColumns ==
    csvContent # Null =>
       LET records == Records
           qs == resSurvey.questions
       IN  /\ Len(resResponses) >= 1
           /\ Len(records) = Len(resResponses) + 1
           /\ Lines >= Len(records)
           /\ \A r \in DOMAIN records : Len(records[r]) = 2 + Len(qs)
           /\ records[1] = <<<<"Response ID">>, <<"Submitted At">>>> \o ShownQuestionTexts
           /\ \A r \in DOMAIN resResponses :
                 /\ records[r + 1][1] = IdText(resResponses[r].id)
                 /\ \A q \in DOMAIN qs :
                       records[r + 1][2 + q] =
                          answerValue(find(resResponses[r].answers, qs[q]))

\* C18 witness: a file was written for two responses to two questions, and an
\* answer with a line break makes it longer than three lines.
C18_Witness ==
    /\ csvContent # Null
    /\ Len(resResponses) = 2
    /\ Len(resSurvey.questions) = 2
    /\ Len(Records) = 3
    /\ Lines > 3


\* The decoded value of a stored answer: answer_text when it is there and not
\* empty, else what answer_choice parses to, the first element of a sequence.
DecodedValue(a) ==
    IF a.answer_text # Null /\ a.answer_text.str # << >> THEN a.answer_text.str
    ELSE IF a.answer_choice = Null THEN << >>
    ELSE LET choice == JSONparse(a.answer_choice.str).value IN
         IF choice.type = "array" THEN choice.arr[1] ELSE choice.str

\* The stored answers to question id.
AnswersOf(id) == {a \in answerRows : a.question_id = id}

\* C17: once the analytics are computed, the distribution of a
\* multiple_choice or likert_scale question maps each decoded answer value to
\* the number of stored answers of the question with that value (so the
\* counts add up to the number of its answers), and the distribution of a
\* question of another type is empty.
C17_DistributionCounts ==
    analytics # Null =>
       \A i \in DOMAIN analytics.questionAnalytics :
          LET entry == analytics.questionAnalytics[i]
              values == {DecodedValue(a) : a \in AnswersOf(entry.questionId)}
          IN  IF entry.questionType \in {"multiple_choice", "likert_scale"}
              THEN /\ DOMAIN entry.chartData = values
                   /\ \A v \in values :
                         entry.chartData[v] =
                            NumberValue(Cardinality({a \in AnswersOf(entry.questionId) :
                                                        DecodedValue(a) = v}))
              ELSE entry.chartData = << >>


(* ================= the taker's page: further claims =================== *)

\* C21: the Previous button, pressed with a question after the first on
\* display, takes currentQuestionIndex down by exactly one, sets error to
\* null and leaves the answers as they are, whether or not the question on
\* display is required and unanswered.
C21_RetreatNeverValidates ==
    [][ClickPrevious =>
          /\ currentQuestionIndex > 0
          /\ currentQuestionIndex' = currentQuestionIndex - 1
          /\ error' = Null
          /\ answers' = answers]_vars

\* C21 witness: the first question is on display with no error while the
\* buffer holds the empty text for the required second question: the taker
\* went back from the second question, the only place where its entry can be
\* written, with that question unanswered.
C21_Witness ==
    /\ view = "ready"
    /\ currentQuestionIndex = 0
    /\ error = Null
    /\ Len(survey.questions) = 2
    /\ survey.questions[2].required
    /\ Get(answers, survey.questions[2].id) = StringValue(<< >>)


\* C22: a change of the answer on display writes the entry of that question
\* in the buffer, with whatever value the control gives, the empty text
\* included, and leaves every other entry, currentQuestionIndex, error and
\* isSubmitting as they are.
C22_RecordAnswerFrame ==
    [][ChangeAnswer =>
          /\ DOMAIN answers' = DOMAIN answers \cup {currentQuestion.id}
          /\ answers'[currentQuestion.id] \in renderQuestion(currentQuestion)
          /\ \A k \in DOMAIN answers : k # currentQuestion.id => answers'[k] = answers[k]
          /\ currentQuestionIndex' = currentQuestionIndex
          /\ error' = error
          /\ isSubmitting' = isSubmitting]_vars

\* C22 witness: the error of a refused Next still stands although the
\* required question on display has been answered since, and another
\* question's entry holds the empty text.
C22_Witness ==
    /\ view = "ready"
    /\ error = RequiredMessage
    /\ currentQuestion.required
    /\ validateCurrentQuestion
    /\ \E k \in DOMAIN answers : k # currentQuestion.id /\ answers[k] = StringValue(<< >>)


\* The fatal error view of the page: the 'Survey Not Found' card.
Fatal == ~isLoading /\ error # Null /\ survey = Null

\* The page has a survey and no load error: the question card.
Ready == ~isLoading /\ survey # Null

\* C23: the page starts loading; every load ends, and ends either with the
\* survey set and no error or with an error set and no survey; a page in the
\* fatal error view stays in it until the taker leaves the page; and a page
\* that has its survey keeps it, so no error raised later shows as fatal.
C23_LoadSettles ==
    /\ isLoading = TRUE /\ survey = Null /\ error = Null
    /\ <>(isLoading = FALSE)
    /\ [][isLoading /\ ~isLoading' =>
             \/ survey' # Null /\ error' = Null
             \/ survey' = Null /\ error' # Null]_vars
    /\ [](~isLoading => (Ready /\ ~Fatal) \/ (Fatal /\ ~Ready))
    /\ [][Fatal => Fatal' /\ view' \in {"error", "left"}]_vars
    /\ [][Ready => Ready' /\ survey' = survey]_vars

\* C23 witness: the load has ended with the survey set, and an error of a
\* failed submission is on display in the question card.
C23_Witness ==
    /\ view = "ready"
    /\ error \in SubmitErrors
    /\ responses # {}


\* The entry of question q in the buffer is an answer: not absent, not null,
\* not the empty text.
Answered(q) == Get(answers, q.id) \notin {Undefined, Null, StringValue(<< >>)}

\* C24: while the question card is on display, every required question
\* before the one on display is answered; so on the last question the only
\* required question that can be unanswered is the last one.
C24_RequiredAnsweredBelow ==
    view = "ready" =>
       /\ \A i \in 1..currentQuestionIndex :
             survey.questions[i].required => Answered(survey.questions[i])
       /\ isLastQuestion =>
             \A i \in DOMAIN missingRequired : missingRequired[i] = currentQuestion

\* C24 witness: Submit was refused on the last of two questions, with the
\* required first question answered and the required last one not.
C24_Witness ==
    /\ view = "ready"
    /\ currentQuestionIndex = 1
    /\ isLastQuestion
    /\ survey.questions[1].required
    /\ missingRequired = <<currentQuestion>>
    /\ error = MissingRequiredMessage(QuestionTexts(missingRequired))


(* ================= takers and admins at once: claims ================== *)

\* C25: every response row is inserted for a survey that is stored as active
\* when the row is inserted, also when an admin has saved another status
\* since the taker loaded the survey.
C25_ResponsesOnlyWhileActive ==
    [][\A r \in responses' \ responses :
          \E row \in surveys : row.id = r.survey_id /\ row.status = "active"]_vars

\* C26: every answer row is inserted with the question_id of a question that
\* is stored for the survey of its response when the row is inserted, also
\* when an admin has saved the survey since the taker loaded it.
C26_AnswersOfStoredQuestions ==
    [][\A a \in answerRows' \ answerRows :
          \E r \in responses, q \in questions :
             /\ r.id = a.response_id
             /\ q.id = a.question_id
             /\ q.survey_id = r.survey_id]_vars


(* ================== the admin's pages: further claims ================= *)

\* No save of the create page or of an edit page is under way.
NoSaveUnderWay ==
    /\ createPc \notin {"user", "survey", "questions"}
    /\ \A a \in Admins : editPc[a] \notin {"update", "delete", "insert"}

\* C27: whenever no save is under way, every stored survey has at least one
\* stored question, whatever requests of the saves before have failed.
C27_EverySurveyHasAQuestion ==
    NoSaveUnderWay =>
       \A row \in surveys : \E q \in questions : q.survey_id = row.id


(* ================ the taker's page: submissions in flight ============== *)

\* C28: while a request of a submission is out, isSubmitting holds; a
\* submission starts only with no request out and isSubmitting false, and
\* sets isSubmitting before its first request is sent; and on a page still
\* on display isSubmitting is false again after the submission's outcome
\* (isSubmitting never stays true for good while the page is on display).
C28_OneSubmissionInFlight ==
    /\ [](pcSubmit # "idle" => isSubmitting = TRUE)
    /\ [][nSubmits' # nSubmits =>
             /\ pcSubmit = "idle"
             /\ ~isSubmitting
             /\ isSubmitting'
             /\ pcSubmit' = "response"]_vars
    /\ []<>(isSubmitting = FALSE \/ ~Mounted)

\* C28 witness: a second submission is under way, the first having ended.
C28_Witness ==
    /\ nSubmits = 2
    /\ pcSubmit = "answers"
    /\ isSubmitting
    /\ Mounted


(* ================= the results page: session and decoders ============= *)

\* C29: the results page has a data request out, or holds or shows survey,
\* response or answer data, only after its session check has ended and found
\* a session.
C29_NoDataBeforeSessionCheck ==
    (\/ resPc \in {"survey", "questions", "responses"}
     \/ resLocals # Null
     \/ resSurvey # Null
     \/ resResponses # << >>
     \/ analytics # Null
     \/ csvContent # Null)
       => (authPc = "done" /\ session)


\* The decode rule: answer_text when it is there and not empty, else
\* answer_choice parsed (null when there is none).
DecodeRule(answer) ==
    IF answer.answer_text # Null /\ answer.answer_text.str # << >> THEN answer.answer_text
    ELSE IF answer.answer_choice = Null THEN Null
    ELSE JSONparse(answer.answer_choice.str).value

\* The answer a decoded value denotes: null, undefined and the empty text all
\* are no answer.
Denoted(value) ==
    IF value \in {Null, Undefined, StringValue(<< >>)} THEN Null ELSE value

\* C30: for every stored answer row, the value the tally of the analytics
\* decodes, the value the export decodes and the value of the decode rule
\* denote the same answer.
C30_DecodersAgree ==
    \A a \in answerRows :
       /\ Denoted(analyticsChoice(a)) = Denoted(exportChoice(a))
       /\ Denoted(exportChoice(a)) = Denoted(DecodeRule(a))

\* C30 witness: the page has tallied and exported two rows, one holding an
\* array of two texts in answer_choice and one the empty text in answer_text.
C30_Witness ==
    /\ analytics # Null
    /\ csvContent # Null
    /\ \E a \in answerRows : exportChoice(a) = ArrayValue(<<<<"A">>, <<"B">>>>)
    /\ \E a \in answerRows : a.answer_text = StringValue(<< >>)

=============================================================================
